---- MODULE Spec2Model ----
(***************************************************************************)
(* A model of OS_DISK_READER: the FAT32 engine (src/FAT32.py) and the NTFS *)
(* engine (src/NTFS.py).  Buffers are sequences of bytes (0..255), decoded *)
(* the way the source decodes them.  The raw device is a variable of its   *)
(* own; every specification below fixes the devices it draws its inputs    *)
(* from in its initial condition.                                          *)
(***************************************************************************)
EXTENDS Integers, Sequences, FiniteSets, TLC

VARIABLES
    \* ---- the FAT32 object (FAT32.__init__, src/FAT32.py:72-87)
    image,                  \* the raw device behind self.path: a sequence of sectors
    n_bytes_sector,
    n_sectors_cluster,
    n_sectors_bootsector,
    n_fat_tables,
    volume_size,
    n_sectors_fat_table,
    rdet_cluster_begin,
    fat_data,
    fixture,                \* history: what the test wrote to the device
    \* ---- one call of FAT32.sectors_chain, iteration by iteration
    chain_pc,               \* "idle" | "loop" | "done"
    cluster_n,
    sectors_chain,
    visited,                \* history: the clusters the loop appended, in order
    \* ---- the last handler called, what it returned
    op,
    ret,
    ret_src,                \* history: where in its input each element of ret comes from
    \* ---- the NTFS object (NTFS.__init__, src/NTFS.py:64-74); None is <<>>,
    \* a value v that may be None is <<v>>
    disk,                   \* the raw device behind self.disk
    boot_sector,
    bytes_per_cluster,
    cluster_size,
    files,
    volume_serial,
    \* ---- one call of NTFS.scan_files, record by record
    scan_pc,                \* "idle" | "loop" | "done"
    scan_i,
    total_entries,
    \* ---- one call of NTFS.parse_file_entry, attribute by attribute
    parse_pc,               \* "idle" | "loop" | "done"
    parse_record,           \* record_data
    parse_number,           \* record_number
    parse_offset,           \* attr_offset
    parse_entry             \* entry

fatVars == <<image, n_bytes_sector, n_sectors_cluster, n_sectors_bootsector,
             n_fat_tables, volume_size, n_sectors_fat_table,
             rdet_cluster_begin, fat_data, fixture>>
chainVars == <<chain_pc, cluster_n, sectors_chain, visited>>
callVars == <<op, ret, ret_src>>
ntfsVars == <<disk, boot_sector, bytes_per_cluster, cluster_size, files, volume_serial>>
scanVars == <<scan_pc, scan_i, total_entries>>
parseVars == <<parse_pc, parse_record, parse_number, parse_offset, parse_entry>>
vars == <<fatVars, chainVars, callVars, ntfsVars, scanVars, parseVars>>

(***************************************************************************)
(* Bounds of the model.                                                    *)
(***************************************************************************)
\* iterations of the sectors_chain loop the model follows
MaxChainLen == 8
\* FAT entries (from cluster 2 on) whose value the chain specification varies
NumVarFat == 2
\* items (short entries, stray fragments, long-named files) of a test directory
MaxItems == 2
\* segments of a path handed to travel_to
MaxDepth == 3
\* MFT records a scan goes through
MaxRecords == 3

(***************************************************************************)
(* Generic helpers.                                                        *)
(***************************************************************************)
Min(a, b) == IF a < b THEN a ELSE b
Max(a, b) == IF a > b THEN a ELSE b

Zeros(n) == [i \in 1..n |-> 0]

RECURSIVE Flatten(_)
Flatten(ss) == IF ss = <<>> THEN <<>> ELSE Head(ss) \o Flatten(Tail(ss))

\* the elements of a sequence
Range(s) == {s[i] : i \in 1..Len(s)}

\* Python's buffer[a:b] for 0 <= a, 0 <= b: clipped to the buffer, never an error
Slice(buffer, a, b) == SubSeq(buffer, Min(a, Len(buffer)) + 1, Min(b, Len(buffer)))

\* little-endian bytes of v, n of them (the test images are written with this)
RECURSIVE LE(_, _)
LE(v, n) == IF n = 0 THEN <<>> ELSE <<v % 256>> \o LE(v \div 256, n - 1)

(***************************************************************************)
(* Shared decoding utilities (src/FAT32.py:5-37).                          *)
(***************************************************************************)
RECURSIVE raw_to_dec(_)
raw_to_dec(data) ==
    IF data = <<>> THEN 0 ELSE Head(data) + 256 * raw_to_dec(Tail(data))

read_bin_offset(buffer, offset, size) == Slice(buffer, offset, offset + size)

read_dec_offset(buffer, offset, size) == raw_to_dec(Slice(buffer, offset, offset + size))

\* read_sectors(path, start_sector, 1, n_bytes_sector): a read past the end of
\* the device is short (here: empty), never an error
read_sectors(start_sector) ==
    IF start_sector >= 0 /\ start_sector < Len(image) THEN image[start_sector + 1] ELSE <<>>

RECURSIVE read_list_sectors(_)
read_list_sectors(sectors) ==
    IF sectors = <<>> THEN <<>>
    ELSE read_sectors(Head(sectors)) \o read_list_sectors(Tail(sectors))

(***************************************************************************)
(* Text.  A decoded string is a sequence of code points.                   *)
(***************************************************************************)
IsCont(b) == b >= 128 /\ b <= 191

\* the length of the well-formed UTF-8 sequence at the head of data, 0 if none
\* (CPython's decoder: no overlong forms, no surrogates, nothing above U+10FFFF)
Utf8SeqLen(data) ==
    LET b == data[1]
        n == Len(data)
    IN  IF b < 128 THEN 1
        ELSE IF b >= 194 /\ b <= 223 /\ n >= 2 /\ IsCont(data[2]) THEN 2
        ELSE IF b >= 224 /\ b <= 239 /\ n >= 3 /\ IsCont(data[2]) /\ IsCont(data[3])
                /\ (b = 224 => data[2] >= 160) /\ (b = 237 => data[2] <= 159) THEN 3
        ELSE IF b >= 240 /\ b <= 244 /\ n >= 4 /\ IsCont(data[2]) /\ IsCont(data[3])
                /\ IsCont(data[4])
                /\ (b = 240 => data[2] >= 144) /\ (b = 244 => data[2] <= 143) THEN 4
        ELSE 0

Utf8CodePoint(data, k) ==
    IF k = 1 THEN data[1]
    ELSE IF k = 2 THEN (data[1] - 192) * 64 + (data[2] - 128)
    ELSE IF k = 3 THEN (data[1] - 224) * 4096 + (data[2] - 128) * 64 + (data[3] - 128)
    ELSE (data[1] - 240) * 262144 + (data[2] - 128) * 4096
         + (data[3] - 128) * 64 + (data[4] - 128)

\* bytes.decode('utf-8', errors='ignore'): a byte that starts no well-formed
\* sequence is dropped and decoding resumes at the next byte
RECURSIVE decode_utf8_ignore(_)
decode_utf8_ignore(data) ==
    IF data = <<>> THEN <<>>
    ELSE LET k == Utf8SeqLen(data)
         IN  IF k = 0 THEN decode_utf8_ignore(Tail(data))
             ELSE <<Utf8CodePoint(data, k)>>
                  \o decode_utf8_ignore(SubSeq(data, k + 1, Len(data)))

IsHighSurrogate(u) == u >= 55296 /\ u <= 56319
IsLowSurrogate(u) == u >= 56320 /\ u <= 57343

\* bytes.decode('utf-16le', errors='ignore'): 16-bit units, a surrogate pair is
\* one code point, a lone surrogate and a trailing odd byte are dropped
RECURSIVE decode_utf16le_ignore(_)
decode_utf16le_ignore(data) ==
    IF Len(data) < 2 THEN <<>>
    ELSE LET u == data[1] + 256 * data[2]
             rest == SubSeq(data, 3, Len(data))
         IN  IF IsHighSurrogate(u)
             THEN IF Len(rest) >= 2 /\ IsLowSurrogate(rest[1] + 256 * rest[2])
                  THEN <<65536 + (u - 55296) * 1024 + (rest[1] + 256 * rest[2] - 56320)>>
                       \o decode_utf16le_ignore(SubSeq(rest, 3, Len(rest)))
                  ELSE decode_utf16le_ignore(rest)
             ELSE IF IsLowSurrogate(u) THEN decode_utf16le_ignore(rest)
             ELSE <<u>> \o decode_utf16le_ignore(rest)

\* the bytes an ill-formed start takes with it: the lead byte and the
\* continuation bytes that could still follow it (CPython's decoder)
Utf8ErrLen(data) ==
    LET b == data[1]
        n == Len(data)
        second_ok == /\ n >= 2
                     /\ IsCont(data[2])
                     /\ (b = 224 => data[2] >= 160)
                     /\ (b = 237 => data[2] <= 159)
                     /\ (b = 240 => data[2] >= 144)
                     /\ (b = 244 => data[2] <= 143)
    IN  IF b < 194 \/ b > 244 THEN 1
        ELSE IF b <= 223 THEN 1
        ELSE IF ~second_ok THEN 1
        ELSE IF b <= 239 THEN 2
        ELSE IF n >= 3 /\ IsCont(data[3]) THEN 3
        ELSE 2

\* bytes.decode('utf-8', errors='replace'): U+FFFD for every ill-formed run
RECURSIVE decode_utf8_replace(_)
decode_utf8_replace(data) ==
    IF data = <<>> THEN <<>>
    ELSE LET k == Utf8SeqLen(data)
         IN  IF k = 0
             THEN <<65533>> \o decode_utf8_replace(SubSeq(data, Utf8ErrLen(data) + 1, Len(data)))
             ELSE <<Utf8CodePoint(data, k)>>
                  \o decode_utf8_replace(SubSeq(data, k + 1, Len(data)))

\* bytes.decode('utf-16le', errors='replace'): U+FFFD for a lone surrogate and
\* for a trailing odd byte
RECURSIVE decode_utf16le_replace(_)
decode_utf16le_replace(data) ==
    IF data = <<>> THEN <<>>
    ELSE IF Len(data) = 1 THEN <<65533>>
    ELSE LET u == data[1] + 256 * data[2]
             rest == SubSeq(data, 3, Len(data))
         IN  IF IsHighSurrogate(u)
             THEN IF Len(rest) >= 2 /\ IsLowSurrogate(rest[1] + 256 * rest[2])
                  THEN <<65536 + (u - 55296) * 1024 + (rest[1] + 256 * rest[2] - 56320)>>
                       \o decode_utf16le_replace(SubSeq(rest, 3, Len(rest)))
                  ELSE <<65533>> \o decode_utf16le_replace(rest)
             ELSE IF IsLowSurrogate(u) THEN <<65533>> \o decode_utf16le_replace(rest)
             ELSE <<u>> \o decode_utf16le_replace(rest)

\* str.isspace of a code point
IsSpace(c) ==
    \/ c \in 9..13 \/ c \in 28..32 \/ c = 133 \/ c = 160 \/ c = 5760
    \/ c \in 8192..8202 \/ c \in {8232, 8233, 8239, 8287, 12288}

\* str.strip()
RECURSIVE LStrip(_)
LStrip(s) == IF s # <<>> /\ IsSpace(Head(s)) THEN LStrip(Tail(s)) ELSE s
RECURSIVE RStrip(_)
RStrip(s) ==
    IF s # <<>> /\ IsSpace(s[Len(s)]) THEN RStrip(SubSeq(s, 1, Len(s) - 1)) ELSE s
Strip(s) == RStrip(LStrip(s))

\* str.lower() on the code points the model's names use (ASCII and Latin-1)
LowerChar(c) ==
    IF (c >= 65 /\ c <= 90) \/ (c >= 192 /\ c <= 222 /\ c # 215) THEN c + 32 ELSE c
Lower(s) == [i \in 1..Len(s) |-> LowerChar(s[i])]

\* str.split(sep, 1)[0]: the text before the first sep
RECURSIVE BeforeFirst(_, _)
BeforeFirst(s, sep) ==
    IF s = <<>> \/ Head(s) = sep THEN <<>> ELSE <<Head(s)>> \o BeforeFirst(Tail(s), sep)

HexDigits == <<"0", "1", "2", "3", "4", "5", "6", "7", "8", "9",
               "a", "b", "c", "d", "e", "f">>

\* bytes.hex(): two lower-case digits per byte
RECURSIVE read_hex(_)
read_hex(data) ==
    IF data = <<>> THEN <<>>
    ELSE <<HexDigits[(Head(data) \div 16) + 1], HexDigits[(Head(data) % 16) + 1]>>
         \o read_hex(Tail(data))

read_hex_offset(buffer, offset, size) == read_hex(Slice(buffer, offset, offset + size))

(***************************************************************************)
(* FAT32.cluster_to_sectors and FAT32.sectors_chain.                       *)
(***************************************************************************)
\* a variant: the cluster number is not scaled by the cluster size
cluster_to_sectors_unscaled(c) ==
    LET sector_begin == n_sectors_bootsector + n_fat_tables * n_sectors_fat_table + (c - 2)
    IN  [i \in 1..n_sectors_cluster |-> sector_begin + (i - 1)]

cluster_to_sectors(c) ==
    LET sector_begin == n_sectors_bootsector + n_fat_tables * n_sectors_fat_table
                        + (c - 2) * n_sectors_cluster
    IN  [i \in 1..n_sectors_cluster |-> sector_begin + (i - 1)]

\* eof_markers of sectors_chain.  The source's set also holds 0xFFFFFFF0, which
\* no value of the model equals: every FAT entry and start cluster modelled is
\* below 2^31.
eof_markers == {0, 268435440, 268435455, 268435447, 268435448}

\* the FAT entry the loop fetches for cluster c: fat_data[c*4 : c*4+4]
fat_entry(c) == raw_to_dec(Slice(fat_data, c * 4, c * 4 + 4))

ChainIdle ==
    /\ chain_pc = "idle"
    /\ cluster_n = 0
    /\ sectors_chain = <<>>
    /\ visited = <<>>

NoCall ==
    /\ op = [name |-> "none"]
    /\ ret = <<>>
    /\ ret_src = <<>>

None == <<>>

\* no device open, and the NTFS object as NTFS.__init__ leaves it
NtfsNew ==
    /\ disk = None
    /\ boot_sector = None
    /\ bytes_per_cluster = 0
    /\ cluster_size = 0
    /\ files = <<>>
    /\ volume_serial = None

ScanIdle ==
    /\ scan_pc = "idle"
    /\ scan_i = 0
    /\ total_entries = 0

ParseIdle ==
    /\ parse_pc = "idle"
    /\ parse_record = <<>>
    /\ parse_number = 0
    /\ parse_offset = 0
    /\ parse_entry = None

\* sectors_chain(cluster_begin): the call
sectors_chain_begin(cluster_begin) ==
    /\ chain_pc = "idle"
    /\ chain_pc' = "loop"
    /\ cluster_n' = cluster_begin
    /\ sectors_chain' = <<>>
    /\ visited' = <<>>
    /\ UNCHANGED <<fatVars, callVars, ntfsVars, scanVars, parseVars>>

\* one iteration of `while cluster_n not in eof_markers`
sectors_chain_iter ==
    /\ chain_pc = "loop"
    /\ cluster_n \notin eof_markers
    /\ Len(visited) < MaxChainLen
    /\ sectors_chain' = sectors_chain \o cluster_to_sectors(cluster_n)
    /\ visited' = Append(visited, cluster_n)
    /\ cluster_n' = fat_entry(cluster_n)
    /\ UNCHANGED <<chain_pc, fatVars, callVars, ntfsVars, scanVars, parseVars>>

\* the loop condition fails: return sectors_chain
sectors_chain_end ==
    /\ chain_pc = "loop"
    /\ cluster_n \in eof_markers
    /\ chain_pc' = "done"
    /\ UNCHANGED <<cluster_n, sectors_chain, visited, fatVars, callVars, ntfsVars, scanVars, parseVars>>

\* sectors_chain(cluster_begin) run to its return, for the handlers that call
\* it: the loop's state is cluster_n alone, so it returns iff no cluster comes
\* up twice.  [returns |-> FALSE] is the call that never returns.
RECURSIVE sectors_chain_from(_, _)
sectors_chain_from(c, seen) ==
    IF c \in eof_markers THEN [returns |-> TRUE, sectors |-> <<>>]
    ELSE IF c \in seen THEN [returns |-> FALSE, sectors |-> <<>>]
    ELSE LET rest == sectors_chain_from(fat_entry(c), seen \cup {c})
         IN  [returns |-> rest.returns,
              sectors |-> cluster_to_sectors(c) \o rest.sectors]

sectors_chain_of(cluster_begin) == sectors_chain_from(cluster_begin, {})

(***************************************************************************)
(* FAT32.read_entry, process_fat_lfn and FAT32.read_directory.             *)
(***************************************************************************)
read_entry(buffer) ==
    [name          |-> Strip(decode_utf8_ignore(read_bin_offset(buffer, 0, 8))),
     attr          |-> read_dec_offset(buffer, 11, 1),
     cluster_begin |-> read_dec_offset(buffer, 26, 2),
     size          |-> read_dec_offset(buffer, 28, 4),
     e5            |-> read_hex_offset(buffer, 0, 1),
     creation_date |-> read_dec_offset(buffer, 16, 2),
     creation_time |-> read_dec_offset(buffer, 14, 2)]

\* the 26 name bytes of one long-filename fragment
lfn_chars(entry) ==
    read_bin_offset(entry, 1, 10) \o read_bin_offset(entry, 14, 12)
        \o read_bin_offset(entry, 28, 4)

RECURSIVE lfn_join(_)
lfn_join(entries) ==
    IF entries = <<>> THEN <<>> ELSE lfn_chars(Head(entries)) \o lfn_join(Tail(entries))

process_fat_lfn(entries) == BeforeFirst(decode_utf16le_ignore(lfn_join(entries)), 0)

\* a variant: the fragment is appended (sub_entries.append(entry_bytes))
buffer_fragment_appended(sub_entries, entry_bytes) == Append(sub_entries, entry_bytes)

\* sub_entries.insert(0, entry_bytes)
buffer_fragment(sub_entries, entry_bytes) == <<entry_bytes>> \o sub_entries

\* a variant: the marker compared in upper case
not_deleted_upper(ent) == ent.e5 \notin {<<"0", "0">>, <<"E", "5">>}

\* ent[4] not in ['00', 'e5']
not_deleted(ent) == ent.e5 \notin {<<"0", "0">>, <<"e", "5">>}

\* ent[1] == 15 for ent = read_entry(entry_bytes).  Of a fragment the loop uses
\* nothing else, and the model computes nothing else: the size field of a padded
\* fragment is 0xFFFFFFFF, beyond the integers of the model checker.
is_fragment(entry_bytes) == read_dec_offset(entry_bytes, 11, 1) = 15

\* the loop of read_directory from offset i on; every entry kept is paired with
\* the offset of its record (at), which the source does not keep
RECURSIVE read_directory_loop(_, _, _, _)
read_directory_loop(buffer, i, entries, sub_entries) ==
    IF i >= Len(buffer) THEN entries
    ELSE LET entry_bytes == Slice(buffer, i, i + 32)
             ent == read_entry(entry_bytes)
         IN  IF ~is_fragment(entry_bytes)
             THEN LET named == IF sub_entries # <<>>
                               THEN [ent EXCEPT !.name = process_fat_lfn(sub_entries)]
                               ELSE [ent EXCEPT !.name = Lower(ent.name)]
                      kept  == IF not_deleted(named)
                               THEN Append(entries, [ent |-> named, at |-> i])
                               ELSE entries
                  IN  read_directory_loop(buffer, i + 32, kept, <<>>)
             ELSE read_directory_loop(buffer, i + 32, entries,
                                      buffer_fragment(sub_entries, entry_bytes))

\* the buffer read_directory scans: the chain's sectors less the first two slots
directory_buffer(entry) ==
    LET buffer == read_list_sectors(sectors_chain_of(entry.cluster_begin).sectors)
    IN  Slice(buffer, 64, Len(buffer))

read_directory_at(entry) == read_directory_loop(directory_buffer(entry), 0, <<>>, <<>>)

\* what read_directory returns
read_directory_of(entry) ==
    LET found == read_directory_at(entry) IN [k \in 1..Len(found) |-> found[k].ent]

\* the handler; a call on a cyclic chain never returns (sectors_chain)
read_directory(entry) ==
    /\ sectors_chain_of(entry.cluster_begin).returns
    /\ op' = [name |-> "read_directory", entry |-> entry]
    /\ ret' = read_directory_of(entry)
    /\ ret_src' = LET found == read_directory_at(entry)
                  IN  [k \in 1..Len(found) |-> found[k].at]
    /\ UNCHANGED <<fatVars, chainVars, ntfsVars, scanVars, parseVars>>

\* the root entry travel_to and read_path start from
rdet_entry ==
    [name |-> <<114, 100, 101, 116>>, attr |-> 16, cluster_begin |-> rdet_cluster_begin,
     size |-> 0, e5 |-> <<>>, creation_date |-> 0, creation_time |-> 0]

(***************************************************************************)
(* FAT32.travel_to.                                                        *)
(***************************************************************************)
\* str.split(sep)
RECURSIVE Split(_, _)
Split(s, sep) ==
    IF \A i \in 1..Len(s) : s[i] # sep THEN <<s>>
    ELSE LET head == BeforeFirst(s, sep)
         IN  <<head>> \o Split(SubSeq(s, Len(head) + 2, Len(s)), sep)

\* the not-found result of travel_to: ['', 0x04, '', -1, '', 0, 0]
not_found_entry ==
    [name |-> <<>>, attr |-> 4, cluster_begin |-> <<>>, size |-> -1, e5 |-> <<>>,
     creation_date |-> 0, creation_time |-> 0]

\* a variant: names compared without regard to case
name_matches_nocase(directory, ent) == Lower(directory) = Lower(ent.name)

\* directory == ent[0]
name_matches(directory, ent) == directory = ent.name

\* the loop of travel_to over the remaining segments; [returns |-> FALSE] when
\* a directory on the way has a cyclic chain (read_directory never returns)
RECURSIVE travel_from(_, _)
travel_from(entry, directories) ==
    IF directories = <<>> THEN [returns |-> TRUE, entry |-> entry]
    ELSE IF ~sectors_chain_of(entry.cluster_begin).returns
    THEN [returns |-> FALSE, entry |-> entry]
    ELSE LET entries == read_directory_of(entry)
             hits == {k \in 1..Len(entries) : name_matches(Head(directories), entries[k])}
         IN  IF hits = {} THEN [returns |-> TRUE, entry |-> not_found_entry]
             ELSE travel_from(entries[CHOOSE k \in hits : \A j \in hits : k <= j],
                              Tail(directories))

travel_to_of(path) ==
    IF path = <<>> \/ path = <<114, 100, 101, 116>>
    THEN [returns |-> TRUE, entry |-> rdet_entry]
    ELSE travel_from(rdet_entry, Split(path, 92))

\* the handler
travel_to(path) ==
    /\ travel_to_of(path).returns
    /\ op' = [name |-> "travel_to", path |-> path]
    /\ ret' = travel_to_of(path).entry
    /\ ret_src' = <<>>
    /\ UNCHANGED <<fatVars, chainVars, ntfsVars, scanVars, parseVars>>

(***************************************************************************)
(* describe_attributes, FAT32.print_text_file and FAT32.read_file.         *)
(***************************************************************************)
\* attr & key, for a key of one bit
HasBit(attr, key) == (attr \div key) % 2 = 1

\* the letters of the attribute bits set, in the order of the source's dict:
\* 0x10 D, 0x20 A, 0x01 R, 0x02 H, 0x04 S
describe_attributes(attr) ==
    (IF HasBit(attr, 16) THEN <<"D">> ELSE <<>>)
        \o (IF HasBit(attr, 32) THEN <<"A">> ELSE <<>>)
        \o (IF HasBit(attr, 1) THEN <<"R">> ELSE <<>>)
        \o (IF HasBit(attr, 2) THEN <<"H">> ELSE <<>>)
        \o (IF HasBit(attr, 4) THEN <<"S">> ELSE <<>>)

\* Python's content[:n]
SliceTo(content, n) ==
    IF n >= 0 THEN SubSeq(content, 1, Min(n, Len(content)))
    ELSE SubSeq(content, 1, Max(0, Len(content) + n))

\* a variant: the content is not cut to the entry's size
print_text_file_uncut(entry) ==
    decode_utf8_ignore(read_list_sectors(sectors_chain_of(entry.cluster_begin).sectors))

\* print_text_file(entry), for a chain that ends
print_text_file(entry) ==
    decode_utf8_ignore(
        SliceTo(read_list_sectors(sectors_chain_of(entry.cluster_begin).sectors),
                entry.size))

\* apps of read_file: the extensions pptx, csv, json, pdf, jpg, mp3, mp4, png
suggested_application(file_extension) ==
    CASE file_extension = <<112, 112, 116, 120>> -> "PowerPoint"
      [] file_extension = <<99, 115, 118>> -> "Spreadsheet Software"
      [] file_extension = <<106, 115, 111, 110>> -> "Text Editor or JSON Viewer"
      [] file_extension = <<112, 100, 102>> -> "PDF Reader"
      [] file_extension = <<106, 112, 103>> -> "Image Viewer"
      [] file_extension = <<109, 112, 51>> -> "Audio Player"
      [] file_extension = <<109, 112, 52>> -> "Video Player"
      [] file_extension = <<112, 110, 103>> -> "Photos"
      [] OTHER -> "Unknown app"

\* describe_attributes(entry[1]) == "A" and entry[3] != -1
is_readable(entry) == describe_attributes(entry.attr) = <<"A">> /\ entry.size # -1

\* what read_file returns: the text of the file, or the message that names an
\* application for the path's extension
read_file_of(entry, path) ==
    IF is_readable(entry)
    THEN [kind |-> "content", text |-> print_text_file(entry)]
    ELSE LET parts == Split(path, 46)
         IN  [kind |-> "unsupported",
              app |-> suggested_application(Lower(parts[Len(parts)]))]

\* the handler; on a readable entry with a cyclic chain it never returns
read_file(entry, path) ==
    /\ is_readable(entry) => sectors_chain_of(entry.cluster_begin).returns
    /\ op' = [name |-> "read_file", entry |-> entry, path |-> path]
    /\ ret' = read_file_of(entry, path)
    /\ ret_src' = <<>>
    /\ UNCHANGED <<fatVars, chainVars, ntfsVars, scanVars, parseVars>>

(***************************************************************************)
(* Test images: a device written sector by sector.                         *)
(***************************************************************************)
\* the bytes of a FAT holding these entries (entry 0 first), 4 bytes each
RECURSIVE FatBytes(_)
FatBytes(entries) ==
    IF entries = <<>> THEN <<>> ELSE LE(Head(entries), 4) \o FatBytes(Tail(entries))

\* bytes cut into sectors of bps bytes, the last one padded with zeros
RECURSIVE Sectors(_, _)
Sectors(bytes, bps) ==
    IF bytes = <<>> THEN <<>>
    ELSE IF Len(bytes) <= bps THEN <<bytes \o Zeros(bps - Len(bytes))>>
    ELSE <<SubSeq(bytes, 1, bps)>> \o Sectors(SubSeq(bytes, bps + 1, Len(bytes)), bps)

RECURSIVE Repeat(_, _)
Repeat(s, n) == IF n <= 0 THEN <<>> ELSE s \o Repeat(s, n - 1)

\* reserved sectors, nfat copies of the FAT, then the data sectors
MkImage(bps, reserved, nfat, fat, data) ==
    Repeat(<<Zeros(bps)>>, reserved) \o Repeat(Sectors(fat, bps), nfat) \o data

\* the FAT region FAT32.__init__ loads: n_sectors_fat_table sectors from
\* sector n_sectors_bootsector on
LoadFat(img, reserved, spf) ==
    Flatten(SubSeq(img, Min(reserved, Len(img)) + 1, Min(reserved + spf, Len(img))))

\* ---- a volume of files and directories, each with its cluster chain
EndOfChain == 268435455

\* the FAT entry of cluster c on a volume holding objs (each [chain, bytes])
FatEntryOf(objs, c) ==
    IF c = 0 THEN 268435448
    ELSE IF c = 1 THEN EndOfChain
    ELSE IF \E o \in 1..Len(objs) : \E i \in 1..Len(objs[o].chain) : objs[o].chain[i] = c
    THEN LET o == CHOOSE o \in 1..Len(objs) :
                     \E i \in 1..Len(objs[o].chain) : objs[o].chain[i] = c
             i == CHOOSE i \in 1..Len(objs[o].chain) : objs[o].chain[i] = c
         IN  IF i = Len(objs[o].chain) THEN EndOfChain ELSE objs[o].chain[i + 1]
    ELSE 0

\* the bytes of cluster c: its share of the object whose chain holds it
ClusterBytesOf(objs, c, csize) ==
    IF \E o \in 1..Len(objs) : \E i \in 1..Len(objs[o].chain) : objs[o].chain[i] = c
    THEN LET o == CHOOSE o \in 1..Len(objs) :
                     \E i \in 1..Len(objs[o].chain) : objs[o].chain[i] = c
             i == CHOOSE i \in 1..Len(objs[o].chain) : objs[o].chain[i] = c
             part == Slice(objs[o].bytes, (i - 1) * csize, i * csize)
         IN  part \o Zeros(csize - Len(part))
    ELSE Zeros(csize)

\* the device of a volume of nclusters data clusters (2 .. nclusters + 1)
MkVolume(objs, bps, spc, reserved, nfat, nclusters) ==
    MkImage(bps, reserved, nfat,
            FatBytes([k \in 1..(nclusters + 2) |-> FatEntryOf(objs, k - 1)]),
            Flatten([k \in 1..nclusters |->
                        Sectors(ClusterBytesOf(objs, k + 1, bps * spc), bps)]))

\* ---- 32-byte directory records
\* a short entry: 8 name bytes, 3 extension bytes, attributes, times, the
\* first cluster (high word at 0x14, low word at 0x1A) and the size
ShortRecord(name, ext, attr, cluster, size) ==
    name \o ext \o <<attr, 0, 0>> \o LE(21, 2) \o LE(33, 2) \o LE(33, 2)
         \o LE(cluster \div 65536, 2) \o LE(21, 2) \o LE(33, 2)
         \o LE(cluster % 65536, 2) \o LE(size, 4)

\* a long-filename fragment: sequence byte, 5 + 6 + 2 UTF-16 units
RECURSIVE UnitBytes(_)
UnitBytes(units) ==
    IF units = <<>> THEN <<>> ELSE LE(Head(units), 2) \o UnitBytes(Tail(units))

LfnRecord(first, units) ==
    <<first>> \o UnitBytes(SubSeq(units, 1, 5)) \o <<15, 0, 0>>
        \o UnitBytes(SubSeq(units, 6, 11)) \o <<0, 0>> \o UnitBytes(SubSeq(units, 12, 13))

\* the UTF-16 units of a text
RECURSIVE Utf16Units(_)
Utf16Units(text) ==
    IF text = <<>> THEN <<>>
    ELSE (IF Head(text) >= 65536
          THEN <<55296 + ((Head(text) - 65536) \div 1024),
                 56320 + ((Head(text) - 65536) % 1024)>>
          ELSE <<Head(text)>>) \o Utf16Units(Tail(text))

\* a name's units, null-terminated and padded with 0xFFFF to whole fragments
\* unless they fill them exactly
LfnPadded(units) ==
    IF Len(units) % 13 = 0 THEN units
    ELSE units \o <<0>> \o [i \in 1..(12 - (Len(units) % 13)) |-> 65535]

\* the fragments of a name as written to disk: the last chunk first (sequence
\* number n with bit 0x40), the first chunk (sequence number 1) last
LfnFragments(text) ==
    LET padded == LfnPadded(Utf16Units(text))
        n == Len(padded) \div 13
    IN  [k \in 1..n |->
            LET seq == n + 1 - k
            IN  LfnRecord(IF k = 1 THEN seq + 64 ELSE seq,
                          SubSeq(padded, (seq - 1) * 13 + 1, seq * 13))]

(***************************************************************************)
(* SpecChain: sectors_chain on every FAT of the bounded family.            *)
(***************************************************************************)
\* FAT entry values: free, reserved, clusters of the volume, a cluster past the
\* FAT, the end-of-chain values 0x0FFFFFF8, 0x0FFFFFFF, 0x0FFFFFF7, 0x0FFFFFF0,
\* the end-of-chain value 0x0FFFFFF9, 0x10000003 (cluster 3, reserved bits set)
\* and 0x1FFFFFF8 (end of chain, reserved bits set)
FatValues == {0, 1, 2, 3, 4, 5, 9, 268435448, 268435455, 268435447, 268435440,
              268435449, 268435459, 536870904}

StartClusters == {0, 1, 2, 3, 4, 5, 9, 268435448}

\* entries 0 and 1 reserved, NumVarFat entries varied, the rest a chain to the
\* last cluster
ChainFat(var) ==
    <<268435448, 268435455>> \o var
      \o [i \in 1..(6 - Len(var)) |->
            IF i = 6 - Len(var) THEN 268435455 ELSE 2 + Len(var) + i]

\* the volume's total cluster count: the data sectors over the cluster size
TotalClusters ==
    (volume_size - (n_sectors_bootsector + n_fat_tables * n_sectors_fat_table))
        \div n_sectors_cluster

InitChain ==
    /\ n_bytes_sector = 32
    /\ n_sectors_cluster \in {1, 2, 4}
    /\ n_sectors_bootsector = 1
    /\ n_fat_tables = 2
    /\ n_sectors_fat_table = 1
    /\ volume_size = 3 + 6 * n_sectors_cluster
    /\ rdet_cluster_begin = 2
    /\ \E var \in [1..NumVarFat -> FatValues] :
          image = MkImage(32, 1, 2, FatBytes(ChainFat(var)),
                          Repeat(<<Zeros(32)>>, 6 * n_sectors_cluster))
    /\ fat_data = LoadFat(image, n_sectors_bootsector, n_sectors_fat_table)
    /\ fixture = [kind |-> "fat"]
    /\ ChainIdle
    /\ NoCall
    /\ NtfsNew
    /\ ScanIdle
    /\ ParseIdle

NextChain ==
    \/ \E c \in StartClusters : sectors_chain_begin(c)
    \/ sectors_chain_iter
    \/ sectors_chain_end

SpecChain == InitChain /\ [][NextChain]_vars

\* C1: followChain aborts with CorruptChain once the chain is longer than the
\* volume's total cluster count: while the loop of sectors_chain runs, it has
\* appended at most TotalClusters clusters.
C1_ChainBoundedByClusterCount ==
    chain_pc = "loop" => Len(visited) <= TotalClusters

\* C12: a chain never contains a cluster index below 2: a start cluster of 0
\* or 1 and a fetched FAT entry of 1 are reported as corruption, no sectors
\* are emitted for them.
C12_NoClusterBelowTwo ==
    \A k \in 1..Len(visited) : visited[k] >= 2

\* the sectors the loop appended for the k-th cluster of the chain
ChainBlock(k) ==
    SubSeq(sectors_chain, (k - 1) * n_sectors_cluster + 1, k * n_sectors_cluster)

\* C14: for every cluster c >= 2 cluster_to_sectors(c) is n_sectors_cluster
\* consecutive, increasing sectors, the first of them reserved + FATs * sectors
\* per FAT + (c - 2) * n_sectors_cluster; the sectors of distinct clusters do
\* not overlap.
C14_ClusterSectors ==
    \A k \in 1..Len(visited) :
        visited[k] >= 2 =>
            LET block == ChainBlock(k)
            IN  /\ Len(block) = n_sectors_cluster
                /\ block[1] = n_sectors_bootsector + n_fat_tables * n_sectors_fat_table
                                  + (visited[k] - 2) * n_sectors_cluster
                /\ \A i \in 1..(n_sectors_cluster - 1) : block[i + 1] = block[i] + 1
                /\ \A j \in 1..Len(visited) :
                      (visited[j] >= 2 /\ visited[j] # visited[k])
                          => Range(ChainBlock(j)) \cap Range(block) = {}

\* the chain 4, 5, 6, 7 is through on a volume of two sectors per cluster
C14_Witness ==
    /\ chain_pc = "done"
    /\ n_sectors_cluster = 2
    /\ visited = <<4, 5, 6, 7>>
    /\ sectors_chain = <<7, 8, 9, 10, 11, 12, 13, 14>>

\* the low 28 bits of a FAT entry
Low28(v) == v % 268435456

\* C13: the top 4 bits of a fetched FAT entry are masked off, and every value
\* whose low 28 bits are 0x0FFFFFF0 or more ends the chain: no sectors are
\* appended for it.
C13_EndOfChainMasked ==
    \A k \in 1..Len(visited) : Low28(visited[k]) < 268435440

(***************************************************************************)
(* SpecDir: read_directory on every directory of the bounded family.       *)
(***************************************************************************)
\* "FILE    ", "SUB     ", "TXT", ".       ", "..      "
NameFILE == <<70, 73, 76, 69, 32, 32, 32, 32>>
NameSUB == <<83, 85, 66, 32, 32, 32, 32, 32>>
ExtTXT == <<84, 88, 84>>
ExtNone == <<32, 32, 32>>
DotRecord == ShortRecord(<<46, 32, 32, 32, 32, 32, 32, 32>>, ExtNone, 16, 2, 0)
DotDotRecord == ShortRecord(<<46, 46, 32, 32, 32, 32, 32, 32>>, ExtNone, 16, 0, 0)

\* long names: one fragment, 13 units exactly, two fragments, 26 units exactly,
\* three fragments with a surrogate pair across the first boundary, and a text
\* with a null inside
LongNames ==
    {<<65, 98>>,
     [i \in 1..13 |-> 96 + i],
     [i \in 1..14 |-> IF i = 5 THEN 32 ELSE 64 + i],
     [i \in 1..26 |-> 96 + i],
     [i \in 1..26 |-> IF i = 13 THEN 128512 ELSE IF i = 20 THEN 233
                      ELSE IF i = 21 THEN 20013 ELSE 96 + i],
     <<97, 0, 98>>}

DirItems ==
    {[t |-> "short", bytes |-> ShortRecord(NameFILE, ExtTXT, 32, 9, 5)],
     [t |-> "short", bytes |-> ShortRecord(NameSUB, ExtNone, 16, 10, 0)],
     [t |-> "short", bytes |-> ShortRecord(NameFILE, ExtNone, 32, 65536 + 9, 5)],
     [t |-> "short", bytes |-> ShortRecord(<<229>> \o Tail(NameFILE), ExtTXT, 32, 9, 5)],
     [t |-> "short", bytes |-> ShortRecord(<<0>> \o Tail(NameFILE), ExtTXT, 32, 9, 5)],
     [t |-> "short", bytes |-> Zeros(32)],
     [t |-> "frag", bytes |-> LfnRecord(65, <<120, 0>> \o [i \in 1..11 |-> 65535])],
     [t |-> "frag", bytes |-> LfnRecord(229, [i \in 1..13 |-> 121])]}
    \cup {[t |-> "file", text |-> n,
           bytes |-> Flatten(LfnFragments(n)) \o ShortRecord(NameFILE, ExtTXT, 32, 9, 5)]
          : n \in LongNames}

RECURSIVE ItemBytes(_)
ItemBytes(items) ==
    IF items = <<>> THEN <<>> ELSE Head(items).bytes \o ItemBytes(Tail(items))

\* a directory's bytes: the two conventional slots, then its items
DirBytes(items) == DotRecord \o DotDotRecord \o ItemBytes(items)

\* the clusters a test object of n clusters is given, out of cluster order:
\* first, first+2, first+1, first+4, first+3, ...
ScatteredChain(first, n) ==
    [k \in 1..n |-> IF k = 1 THEN first
                    ELSE IF k % 2 = 0 THEN first + k ELSE first + k - 2]

ClustersFor(bytes, csize) == Max(1, (Len(bytes) + csize - 1) \div csize)

\* where, in the buffer read_directory scans, item k starts and its short entry is
ItemOffset(items, k) == Len(ItemBytes(SubSeq(items, 1, k - 1)))
ShortOffset(items, k) == ItemOffset(items, k) + Len(items[k].bytes) - 32

InitDir ==
    /\ n_bytes_sector = 64
    /\ n_sectors_cluster = 1
    /\ n_sectors_bootsector = 1
    /\ n_fat_tables = 2
    /\ n_sectors_fat_table = 1
    /\ volume_size = 3 + 14
    /\ rdet_cluster_begin = 2
    /\ \E n \in 0..MaxItems : \E items \in [1..n -> DirItems] :
          /\ fixture = [kind |-> "dir", items |-> items]
          /\ image = MkVolume(<<[chain |-> ScatteredChain(2, ClustersFor(DirBytes(items), 64)),
                                 bytes |-> DirBytes(items)]>>,
                              64, 1, 1, 2, 14)
    /\ fat_data = LoadFat(image, n_sectors_bootsector, n_sectors_fat_table)
    /\ ChainIdle
    /\ NoCall
    /\ NtfsNew
    /\ ScanIdle
    /\ ParseIdle

NextDir == read_directory(rdet_entry)

SpecDir == InitDir /\ [][NextDir]_vars

\* the first byte of the record at offset at of the directory the last call read
RecordFirstByte(at) == directory_buffer(op.entry)[at + 1]

\* C3: no entry read_directory returns comes from a record whose first byte is
\* 0xE5 or 0x00, whatever precedes the record.
C3_NoDeletedEntryListed ==
    op.name = "read_directory" =>
        \A k \in 1..Len(ret) : RecordFirstByte(ret_src[k]) \notin {0, 229}

\* a listing of a directory that holds a live record and a deleted record
\* (either one behind a fragment): the first is listed, the second is not
C3_Witness ==
    /\ op.name = "read_directory"
    /\ Len(ret) = 1
    /\ Len(fixture.items) = 2
    /\ \E k \in 1..2 :
          /\ fixture.items[k].t \in {"short", "file"}
          /\ fixture.items[k].bytes[Len(fixture.items[k].bytes) - 31] = 229
          /\ ret_src[1] # ShortOffset(fixture.items, k)

\* a deleted record right behind a fragment is not listed
C3_WitnessBehindFragment ==
    /\ op.name = "read_directory"
    /\ ret = <<>>
    /\ Len(fixture.items) = 2
    /\ fixture.items[1].t = "frag"
    /\ fixture.items[2].bytes[1] = 229
    /\ fixture.items[2].t = "short"

\* C4: a record whose first byte is 0x00 ends the enumeration: no entry
\* read_directory returns comes from a record behind a 0x00 record.
C4_ZeroByteEndsListing ==
    op.name = "read_directory" =>
        \A k \in 1..Len(ret) :
            \A j \in 0..(ret_src[k] \div 32) : RecordFirstByte(j * 32) # 0

RecordFirstCluster(at) ==
    LET buffer == directory_buffer(op.entry)
    IN  65536 * (buffer[at + 21] + 256 * buffer[at + 22])
            + buffer[at + 27] + 256 * buffer[at + 28]

\* C22: the starting cluster of every entry read_directory returns is the full
\* first-cluster number stored in the entry's record, the high 16 bits at 0x14
\* combined with the low 16 bits at 0x1A.
C22_FullFirstCluster ==
    op.name = "read_directory" =>
        \A k \in 1..Len(ret) : ret[k].cluster_begin = RecordFirstCluster(ret_src[k])

\* a file whose record stores the first cluster 65536 + 9 is listed with the
\* starting cluster 9, the starting cluster of the file listed ahead of it
C22_HighWordDropped ==
    /\ op.name = "read_directory"
    /\ Len(ret) = 2
    /\ RecordFirstCluster(ret_src[1]) = 9
    /\ RecordFirstCluster(ret_src[2]) = 65536 + 9
    /\ ret[1].cluster_begin = 9
    /\ ret[2].cluster_begin = 9

(***************************************************************************)
(* SpecPath: travel_to on volumes holding a directory tree three deep.     *)
(***************************************************************************)
\* a node of a test tree: the entry as it is to be listed (name, attr, cluster,
\* size), its records in the parent (bytes), whether it is deleted (live), and
\* for a directory its slots, its entries (kids) and its cluster chain
FileNode(listed, bytes, cluster, size, content) ==
    [name |-> listed, attr |-> 32, cluster |-> cluster, size |-> size, bytes |-> bytes,
     live |-> TRUE, slots |-> <<>>, kids |-> <<>>, chain |-> <<cluster>>,
     content |-> content]

DirNode(listed, bytes, chain, kids) ==
    [name |-> listed, attr |-> 16, cluster |-> chain[1], size |-> 0, bytes |-> bytes,
     live |-> TRUE, slots |-> DotRecord \o DotDotRecord, kids |-> kids, chain |-> chain,
     content |-> <<>>]

TextHello == <<104, 101, 108, 108, 111>>
NameDOCS == <<68, 79, 67, 83, 32, 32, 32, 32>>
NameRDET == <<82, 68, 69, 84, 32, 32, 32, 32>>
NameA == <<65, 32, 32, 32, 32, 32, 32, 32>>
NameB == <<66, 32, 32, 32, 32, 32, 32, 32>>
NameNOPE == <<78, 79, 80, 69, 32, 32, 32, 32>>
TextDocs == <<100, 111, 99, 115>>
TextSub == <<115, 117, 98>>
TextA == <<97>>
TextB == <<98>>
TextNope == <<110, 111, 112, 101>>
TextRdet == <<114, 100, 101, 116>>
TextReadme == <<82, 101, 97, 100, 109, 101, 46, 109, 100>>
TextDeepFile == <<68, 101, 101, 112, 32, 70, 105, 108, 101, 46, 116, 120, 116>>

\* sub: a file and a long-named file
NodeSub ==
    DirNode(TextSub, ShortRecord(NameSUB, ExtNone, 16, 6, 0), <<6, 8>>,
            <<FileNode(TextB, ShortRecord(NameB, ExtTXT, 32, 9, 5), 9, 5, TextHello),
              FileNode(TextDeepFile,
                       Flatten(LfnFragments(TextDeepFile))
                           \o ShortRecord(<<68, 69, 69, 80, 70, 73, 126, 49>>, ExtTXT, 32, 12, 5),
                       12, 5, TextHello)>>)

\* docs: the directory sub and a file
NodeDocs ==
    DirNode(TextDocs, ShortRecord(NameDOCS, ExtNone, 16, 3, 0), <<3, 5>>,
            <<NodeSub,
              FileNode(TextA, ShortRecord(NameA, ExtTXT, 32, 7, 5), 7, 5, TextHello)>>)

NodeReadme ==
    FileNode(TextReadme,
             Flatten(LfnFragments(TextReadme))
                 \o ShortRecord(<<82, 69, 65, 68, 77, 69, 126, 49>>, <<77, 68, 32>>, 32, 13, 5),
             13, 5, TextHello)

\* the two slots of a root directory that read_directory skips
RootSlots ==
    ShortRecord(<<86, 79, 76, 85, 77, 69, 32, 32>>, ExtNone, 8, 0, 0)
        \o ShortRecord(<<72, 73, 68, 68, 69, 78, 32, 32>>, ExtNone, 32, 0, 0)

RootNode(chain, kids) ==
    [name |-> TextRdet, attr |-> 16, cluster |-> chain[1], size |-> 0, bytes |-> <<>>,
     live |-> TRUE, slots |-> RootSlots, kids |-> kids, chain |-> chain, content |-> <<>>]

\* a plain tree: root > docs > sub
PathTree1 == RootNode(<<2, 4>>, <<NodeDocs, NodeReadme>>)

\* the content of a file that is the copy of a directory cluster: two slots
\* and the record of a file nope
DirectoryImage ==
    DotRecord \o DotDotRecord \o ShortRecord(NameNOPE, ExtTXT, 32, 14, 5)

\* a tree with a deleted docs ahead of docs, a second docs behind it (holding
\* nope) and a directory named rdet, which holds a file b whose content is a
\* directory image
PathTree2 ==
    RootNode(<<2, 4>>,
             <<[DirNode(TextDocs, ShortRecord(<<229>> \o Tail(NameDOCS), ExtNone, 16, 10, 0),
                        <<10>>, <<>>) EXCEPT !.live = FALSE, !.chain = <<>>],
               NodeDocs,
               DirNode(TextRdet, ShortRecord(NameRDET, ExtNone, 16, 11, 0), <<11>>,
                       <<FileNode(TextB, ShortRecord(NameB, ExtTXT, 32, 15, 96), 15, 96,
                                  DirectoryImage)>>),
               DirNode(TextDocs, ShortRecord(NameDOCS, ExtNone, 16, 10, 0), <<10>>,
                       <<FileNode(TextNope, ShortRecord(NameNOPE, ExtTXT, 32, 14, 5), 14, 5,
                                  TextHello)>>)>>)

\* the objects (chain and bytes) of a tree
RECURSIVE ObjsOf(_)
ObjsOf(node) ==
    IF node.chain = <<>> THEN <<>>
    ELSE IF node.attr = 16
    THEN <<[chain |-> node.chain, bytes |-> node.slots \o ItemBytes(node.kids)]>>
         \o Flatten([k \in 1..Len(node.kids) |-> ObjsOf(node.kids[k])])
    ELSE <<[chain |-> node.chain, bytes |-> node.content]>>

\* what resolving segs from directory node on is to give: the node found, or
\* "missing" when a segment names no live entry of the directory reached, or
\* "file" when a segment before the last names an entry that is no directory
RECURSIVE Resolve(_, _)
Resolve(node, segs) ==
    LET hits == {k \in 1..Len(node.kids) :
                    node.kids[k].live /\ node.kids[k].name = Head(segs)}
    IN  IF hits = {} THEN [kind |-> "missing"]
        ELSE LET kid == node.kids[CHOOSE k \in hits : \A j \in hits : k <= j]
             IN  IF Len(segs) = 1 THEN [kind |-> "found", node |-> kid]
                 ELSE IF kid.attr # 16 THEN [kind |-> "file"]
                 ELSE Resolve(kid, Tail(segs))

\* segments joined with backslashes
RECURSIVE JoinPath(_)
JoinPath(segs) ==
    IF Len(segs) = 1 THEN segs[1] ELSE segs[1] \o <<92>> \o JoinPath(Tail(segs))

PathSegments == {TextDocs, TextSub, TextB, TextDeepFile, <<68, 79, 67, 83>>,
                 TextNope, TextRdet, <<>>}

TestPaths ==
    {JoinPath(segs) : segs \in UNION {[1..n -> PathSegments] : n \in 1..MaxDepth}}

InitPath ==
    /\ n_bytes_sector = 128
    /\ n_sectors_cluster = 1
    /\ n_sectors_bootsector = 1
    /\ n_fat_tables = 2
    /\ n_sectors_fat_table = 1
    /\ volume_size = 3 + 30
    /\ rdet_cluster_begin = 2
    /\ \E tree \in {PathTree1, PathTree2} :
          /\ fixture = [kind |-> "tree", root |-> tree]
          /\ image = MkVolume(ObjsOf(tree), 128, 1, 1, 2, 30)
    /\ fat_data = LoadFat(image, n_sectors_bootsector, n_sectors_fat_table)
    /\ ChainIdle
    /\ NoCall
    /\ NtfsNew
    /\ ScanIdle
    /\ ParseIdle

\* travel_to reads the volume and leaves it as it is: one call from the state
\* after construction stands for every call
NextPath == op.name = "none" /\ \E path \in TestPaths : travel_to(path)

SpecPath == InitPath /\ [][NextPath]_vars

\* ret is the entry of node as its parent lists it
IsEntryOf(node) ==
    /\ ret.size # -1
    /\ ret.name = node.name
    /\ ret.attr = node.attr
    /\ ret.cluster_begin = node.cluster
    /\ ret.size = node.size

\* C2 as claimed: for every path, travel_to returns the entry the segments name,
\* and the not-found entry (size -1) when a segment names no entry of the
\* directory reached.
C2_ResolvesEveryPath ==
    op.name = "travel_to" =>
        LET want == Resolve(fixture.root, Split(op.path, 92))
        IN  /\ want.kind = "found" => IsEntryOf(want.node)
            /\ want.kind = "missing" => ret.size = -1

\* C20: travel_to descends only through directories: when a segment before
\* the last names an entry that is not a directory, the result is the
\* not-found entry; the entry's chain is not read as a directory.
C20_DescendsOnlyThroughDirectories ==
    op.name = "travel_to" =>
        (Resolve(fixture.root, Split(op.path, 92)).kind = "file" => ret.size = -1)

\* C2 amended: the same for every path but the empty path and "rdet", for which
\* travel_to returns the root entry.
C2_ResolvesPathsButRootAlias ==
    op.name = "travel_to" =>
        IF op.path \in {<<>>, TextRdet}
        THEN ret.size = 0 /\ ret.attr = 16 /\ ret.cluster_begin = rdet_cluster_begin
        ELSE LET want == Resolve(fixture.root, Split(op.path, 92))
             IN  /\ want.kind = "found" => IsEntryOf(want.node)
                 /\ want.kind = "missing" => ret.size = -1

\* the long-named file three levels down is found
C2_Witness ==
    /\ op.name = "travel_to"
    /\ op.path = JoinPath(<<TextDocs, TextSub, TextDeepFile>>)
    /\ ret.name = TextDeepFile
    /\ ret.cluster_begin = 12

\* a path whose last segment is missing two levels down gives the not-found entry
C2_WitnessMissing ==
    /\ op.name = "travel_to"
    /\ op.path = JoinPath(<<TextDocs, TextSub, TextNope>>)
    /\ ret.size = -1

(***************************************************************************)
(* SpecRead: read_file on volumes whose root lists one file, over every    *)
(* attribute byte, and over sizes, contents and scattered chains.          *)
(***************************************************************************)
MaxFileClusters == 3

\* the chains a test file is given, out of cluster order; <<>> is a file whose
\* entry names cluster 0
FileChains == {SubSeq(<<8, 6, 7, 10, 9>>, 1, n) : n \in 0..MaxFileClusters}

\* contents of n bytes: letters that tell the position; the same with a stray
\* 0xE9 (Latin-1) at byte 3; the same with two-byte characters (0xC3 0xA9) at
\* bytes 4-5 and across the first cluster boundary, bytes 15-16
PlainContent(n) == [i \in 1..n |-> 97 + ((i - 1) % 26)]
Latin1Content(n) == [i \in 1..n |-> IF i = 4 THEN 233 ELSE 97 + ((i - 1) % 26)]
Utf8Content(n) ==
    [i \in 1..n |-> IF i \in {5, 16} /\ i < n THEN 195
                    ELSE IF i \in {6, 17} THEN 169
                    ELSE 97 + ((i - 1) % 26)]

FileContents(n) == {PlainContent(n), Latin1Content(n), Utf8Content(n)}
FileSizes == {0, 3, 5, 6, 16, 17, 20, 32, 48, 200}

TextFile == <<102, 105, 108, 101>>
TextNotesPdf == <<78, 111, 116, 101, 115, 46, 80, 68, 70>>
TextSongMp3 == <<115, 111, 110, 103, 46, 109, 112, 51>>

\* the records of the test file under its names: a short name, and long names
\* with an extension
FileRecords(listed, attr, cluster, size) ==
    IF listed = TextFile THEN ShortRecord(NameFILE, ExtTXT, attr, cluster, size)
    ELSE Flatten(LfnFragments(listed)) \o ShortRecord(NameFILE, ExtTXT, attr, cluster, size)

ReadFixtures ==
    {[kind |-> "file", name |-> name, attr |-> attr, size |-> 5, chain |-> <<8>>,
      content |-> PlainContent(16)]
        : name \in {TextFile, TextNotesPdf, TextSongMp3}, attr \in 0..255}
    \cup
    UNION {{[kind |-> "file", name |-> TextFile, attr |-> 32, size |-> size,
             chain |-> chain, content |-> content]
                : size \in FileSizes, content \in FileContents(16 * Len(chain))}
              : chain \in FileChains}

InitRead ==
    /\ n_bytes_sector = 16
    /\ n_sectors_cluster = 1
    /\ n_sectors_bootsector = 1
    /\ n_fat_tables = 2
    /\ n_sectors_fat_table = 4
    /\ volume_size = 9 + 14
    /\ rdet_cluster_begin = 2
    /\ \E f \in ReadFixtures :
          /\ fixture = f
          /\ image =
                LET first == IF f.chain = <<>> THEN 0 ELSE f.chain[1]
                    root == [chain |-> <<2, 4, 3, 5, 12, 11, 13, 14>>,
                             bytes |-> RootSlots
                                 \o FileRecords(f.name, f.attr, first, f.size)]
                IN  MkVolume(IF f.chain = <<>> THEN <<root>>
                             ELSE <<root, [chain |-> f.chain, bytes |-> f.content]>>,
                             16, 1, 1, 2, 14)
    /\ fat_data = LoadFat(image, n_sectors_bootsector, n_sectors_fat_table)
    /\ ChainIdle
    /\ NoCall
    /\ NtfsNew
    /\ ScanIdle
    /\ ParseIdle

\* read_file on what travel_to gives for a path: an entry the root lists, the
\* root entry, or the not-found entry
NextRead ==
    /\ op.name = "none"
    /\ \E path \in {fixture.name, TextNope, <<>>} :
          read_file(travel_to_of(path).entry, path)

SpecRead == InitRead /\ [][NextRead]_vars

\* the UTF-8 bytes of a text
RECURSIVE Utf8Bytes(_)
Utf8Bytes(text) ==
    IF text = <<>> THEN <<>>
    ELSE LET c == Head(text)
         IN  (IF c < 128 THEN <<c>>
              ELSE IF c < 2048 THEN <<192 + (c \div 64), 128 + (c % 64)>>
              ELSE <<224 + (c \div 4096), 128 + ((c \div 64) % 64), 128 + (c % 64)>>)
             \o Utf8Bytes(Tail(text))

\* bytes that are ASCII and two-byte characters throughout
RECURSIVE IsPlainUtf8(_)
IsPlainUtf8(bytes) ==
    \/ bytes = <<>>
    \/ Head(bytes) < 128 /\ IsPlainUtf8(Tail(bytes))
    \/ /\ Len(bytes) >= 2
       /\ Head(bytes) \in 194..223
       /\ bytes[2] \in 128..191
       /\ IsPlainUtf8(Tail(Tail(bytes)))

\* a is b with some elements left out
RECURSIVE IsSubsequence(_, _)
IsSubsequence(a, b) ==
    IF a = <<>> THEN TRUE
    ELSE IF b = <<>> THEN FALSE
    ELSE IF Head(a) = Head(b) THEN IsSubsequence(Tail(a), Tail(b))
    ELSE IsSubsequence(a, Tail(b))

\* the first size bytes of what the test file's chain holds, in chain order
FirstSizeBytes == SubSeq(fixture.content, 1, Min(fixture.size, Len(fixture.content)))

C6_WitnessCutCharacter ==
    /\ op.name = "read_file"
    /\ ret.kind = "content"
    /\ fixture.size = 5
    /\ fixture.content = Utf8Content(16)
    /\ ret.text = PlainContent(4)

\* C7: read_file returns content only for an entry whose attribute byte is
\* exactly archive (0x20); for any other byte, and for the not-found entry, it
\* returns the not-supported message.
C7_ContentOnlyForArchive ==
    (op.name = "read_file" /\ ret.kind = "content") =>
        /\ op.entry.size # -1
        /\ op.entry.attr = 32

(***************************************************************************)
(* The NTFS engine (src/NTFS.py).  Python's integers have no width: the    *)
(* values of the 4- and 8-byte fields and the record size, which reach     *)
(* 2^64 and 2^128, are held as limbs: base 32768, least significant limb   *)
(* first, no leading zero limb, <<>> for 0.                                *)
(***************************************************************************)
Limb == 32768

\* b * m + c for a small m >= 1 and c >= 0
RECURSIVE BigMulAdd(_, _, _)
BigMulAdd(b, m, c) ==
    IF b = <<>>
    THEN IF c = 0 THEN <<>> ELSE <<c % Limb>> \o BigMulAdd(<<>>, m, c \div Limb)
    ELSE LET t == Head(b) * m + c
         IN  <<t % Limb>> \o BigMulAdd(Tail(b), m, t \div Limb)

BigOf(n) == BigMulAdd(<<>>, 1, n)

\* 2 ** n
BigPow2(n) == [i \in 1..((n \div 15) + 1) |-> IF i = (n \div 15) + 1 THEN 2 ^ (n % 15) ELSE 0]

\* values below 2^30 are plain integers
BigFits(b) == Len(b) <= 2
BigToInt(b) ==
    IF b = <<>> THEN 0 ELSE IF Len(b) = 1 THEN b[1] ELSE b[1] + Limb * b[2]

\* a + b + c for a carry c
RECURSIVE BigAddCarry(_, _, _)
BigAddCarry(a, b, c) ==
    IF a = <<>> /\ b = <<>> THEN (IF c = 0 THEN <<>> ELSE <<c>>)
    ELSE LET x == IF a = <<>> THEN 0 ELSE Head(a)
             y == IF b = <<>> THEN 0 ELSE Head(b)
             t == x + y + c
         IN  <<t % Limb>> \o BigAddCarry(IF a = <<>> THEN <<>> ELSE Tail(a),
                                         IF b = <<>> THEN <<>> ELSE Tail(b),
                                         t \div Limb)

BigAdd(a, b) == BigAddCarry(a, b, 0)

\* a * b
RECURSIVE BigMul(_, _)
BigMul(a, b) ==
    IF a = <<>> \/ b = <<>> THEN <<>>
    ELSE LET low == IF Head(b) = 0 THEN <<>> ELSE BigMulAdd(a, Head(b), 0)
             high == BigMul(a, Tail(b))
         IN  BigAdd(low, IF high = <<>> THEN <<>> ELSE <<0>> \o high)

\* a < b
RECURSIVE BigLess(_, _)
BigLess(a, b) ==
    IF Len(a) # Len(b) THEN Len(a) < Len(b)
    ELSE IF a = <<>> THEN FALSE
    ELSE IF a[Len(a)] # b[Len(b)] THEN a[Len(a)] < b[Len(b)]
    ELSE BigLess(SubSeq(a, 1, Len(a) - 1), SubSeq(b, 1, Len(b) - 1))

\* the limbs of b without leading zero limbs
RECURSIVE BigTrim(_)
BigTrim(b) ==
    IF b # <<>> /\ b[Len(b)] = 0 THEN BigTrim(SubSeq(b, 1, Len(b) - 1)) ELSE b

\* b // m for a small m >= 1: long division from the most significant limb
RECURSIVE BigDivRem(_, _)
BigDivRem(b, m) ==
    IF b = <<>> THEN [q |-> <<>>, r |-> 0]
    ELSE LET high == BigDivRem(Tail(b), m)
             t == high.r * Limb + Head(b)
         IN  [q |-> <<t \div m>> \o high.q, r |-> t % m]

BigDiv(b, m) == BigTrim(BigDivRem(b, m).q)

\* an offset or a count handed to the device: beyond 2^30 it is beyond the
\* end of every device of the model
BigClamp(b) == IF BigFits(b) THEN BigToInt(b) ELSE Limb * Limb

\* struct.unpack of an unsigned little-endian field ('<B', '<H', '<I', '<Q'):
\* the short fields as integers, the long ones as limbs
RECURSIVE unpack_big(_)
unpack_big(bytes) ==
    IF bytes = <<>> THEN <<>> ELSE BigMulAdd(unpack_big(Tail(bytes)), 256, Head(bytes))

unpack_H(bytes) == bytes[1] + 256 * bytes[2]

\* struct.unpack('<b', ...): one signed byte
unpack_b(bytes) == IF bytes[1] >= 128 THEN bytes[1] - 256 ELSE bytes[1]

NTFS_SIGNATURE == <<78, 84, 70, 83, 32, 32, 32, 32>>
SECTOR_SIZE == 512
partition_offset == 0

\* self.disk.seek(offset); self.disk.read(n): the bytes from offset on, fewer
\* than n at the end of the device; raises when no device is open or the
\* device fails at that offset
disk_read(offset, n) ==
    IF disk = None \/ offset \in disk[1].bad
    THEN [raises |-> TRUE, data |-> <<>>]
    ELSE [raises |-> FALSE,
          data |-> Slice(disk[1].data, offset,
                         Min(offset, Len(disk[1].data)) + Min(n, Len(disk[1].data)))]

\* a variant: a record-size byte is taken as unsigned
record_size_unsigned(mft_record_size_raw) == BigOf(((mft_record_size_raw + 256) % 256) * 1024)

\* 2 ** abs(raw) if raw < 0 else raw * 1024
record_size(mft_record_size_raw) ==
    IF mft_record_size_raw < 0 THEN BigPow2(-mft_record_size_raw)
    ELSE BigOf(mft_record_size_raw * 1024)

\* a variant: the sector size is not checked
boot_sector_valid_any_size(data) ==
    /\ Len(data) >= 512
    /\ Slice(data, 3, 11) = NTFS_SIGNATURE

\* the three checks of read_boot_sector that raise ValueError
boot_sector_valid(data) ==
    /\ Len(data) >= 512
    /\ Slice(data, 3, 11) = NTFS_SIGNATURE
    /\ unpack_H(Slice(data, 11, 13)) \in {512, 4096}

\* the NTFSBootSector read_boot_sector builds from a valid sector
boot_sector_of(data) ==
    [oem_id |-> Slice(data, 3, 11),
     bytes_per_sector |-> unpack_H(Slice(data, 11, 13)),
     sectors_per_cluster |-> data[14],
     mft_cluster |-> unpack_big(Slice(data, 48, 56)),
     mft_mirror_cluster |-> unpack_big(Slice(data, 56, 64)),
     mft_record_size |-> record_size(unpack_b(Slice(data, 64, 65))),
     volume_serial |-> unpack_big(Slice(data, 72, 80)),
     checksum |-> unpack_big(Slice(data, 80, 84))]

\* read_boot_sector, given what seek and read gave: every failure is caught
\* and reported as False
read_boot_sector_ok(read) == ~read.raises /\ boot_sector_valid(read.data)

\* what read_boot_sector leaves in the object: the boot sector and what is
\* derived from it after a read that passes, what was there after any other
boot_sector_loaded(read) ==
    IF read_boot_sector_ok(read)
    THEN LET bs == boot_sector_of(read.data)
         IN  [boot_sector |-> <<bs>>,
              bytes_per_cluster |-> bs.bytes_per_sector * bs.sectors_per_cluster,
              cluster_size |-> bs.sectors_per_cluster * bs.bytes_per_sector,
              volume_serial |-> <<bs.volume_serial>>]
    ELSE [boot_sector |-> boot_sector, bytes_per_cluster |-> bytes_per_cluster,
          cluster_size |-> cluster_size, volume_serial |-> volume_serial]

\* the handler
read_boot_sector(read) ==
    /\ boot_sector' = boot_sector_loaded(read).boot_sector
    /\ bytes_per_cluster' = boot_sector_loaded(read).bytes_per_cluster
    /\ cluster_size' = boot_sector_loaded(read).cluster_size
    /\ volume_serial' = boot_sector_loaded(read).volume_serial
    /\ op' = [name |-> "read_boot_sector", read |-> read]
    /\ ret' = <<read_boot_sector_ok(read)>>
    /\ ret_src' = <<>>
    /\ UNCHANGED <<disk, files, scanVars, parseVars, fatVars, chainVars>>

(***************************************************************************)
(* NTFS.read_mft_record, parse_file_entry, parse_attribute.                *)
(***************************************************************************)
\* b'FILE'
FILE_SIGNATURE == <<70, 73, 76, 69>>

\* self.disk_path, \\.\E: here, and self.disk_path.split('\\')[-1]
disk_path == <<92, 92, 46, 92, 69, 58>>
disk_path_last == LET parts == Split(disk_path, 92) IN parts[Len(parts)]

\* read_mft_record(record_number): None, or <<the record's bytes>>
read_mft_record(record_number) ==
    IF boot_sector = None THEN None
    ELSE LET mft_offset == BigMul(boot_sector[1].mft_cluster, BigOf(bytes_per_cluster))
             record_offset == BigMul(BigOf(record_number), boot_sector[1].mft_record_size)
             absolute_offset == BigAdd(BigOf(partition_offset * SECTOR_SIZE),
                                       BigAdd(mft_offset, record_offset))
             read == disk_read(BigClamp(absolute_offset),
                               BigClamp(boot_sector[1].mft_record_size))
         IN  IF read.raises THEN None
             ELSE IF Len(read.data) < 42 THEN None
             ELSE IF Slice(read.data, 0, 4) # FILE_SIGNATURE THEN None
             ELSE <<read.data>>

\* parse_ntfs_time: None for 0 and for a time past datetime.max, else the
\* microseconds since 1601-01-01 the datetime stands for
DatetimeMax == <<8191, 10739, 2700, 7533>>
parse_ntfs_time(ntfs_time) ==
    IF ntfs_time = <<>> THEN None
    ELSE IF BigLess(DatetimeMax, BigDiv(ntfs_time, 10)) THEN None
    ELSE <<BigDiv(ntfs_time, 10)>>

\* ATTRIBUTE_TYPES.get(attr_type, f'UNKNOWN_{hex(attr_type)}')
ATTRIBUTE_TYPES ==
    <<"STANDARD_INFORMATION", "ATTRIBUTE_LIST", "FILE_NAME", "OBJECT_ID",
      "SECURITY_DESCRIPTOR", "VOLUME_NAME", "VOLUME_INFORMATION", "DATA", "INDEX_ROOT",
      "INDEX_ALLOCATION", "BITMAP", "REPARSE_POINT", "EA_INFORMATION", "EA",
      "PROPERTY_SET", "LOGGED_UTILITY_STREAM">>
attribute_name(attr_type) ==
    IF Len(attr_type) = 1 /\ attr_type[1] % 16 = 0 /\ attr_type[1] \div 16 \in 1..16
    THEN [name |-> ATTRIBUTE_TYPES[attr_type[1] \div 16], hex |-> <<>>]
    ELSE [name |-> "UNKNOWN", hex |-> attr_type]

\* `if entry.name`: a name that is neither None nor empty
has_name(entry) == entry.name # None /\ entry.name[1] # <<>>

\* the loop of parse_attribute over self.files: the parent reference becomes
\* the name of the first kept file whose ID it equals, or the last part of the
\* disk path when it is 5 and the file at hand does not carry that ID
RECURSIVE resolve_parent(_, _)
resolve_parent(parent_ref, fs) ==
    IF fs = <<>> THEN parent_ref
    ELSE IF parent_ref.kind = "name" THEN parent_ref
    ELSE IF Head(fs).ID = parent_ref.ref
    THEN resolve_parent([kind |-> "name", ref |-> <<>>, name |-> Head(fs).name[1]], Tail(fs))
    ELSE IF parent_ref.ref = <<5>>
    THEN resolve_parent([kind |-> "name", ref |-> <<>>, name |-> disk_path_last], Tail(fs))
    ELSE resolve_parent(parent_ref, Tail(fs))

\* flags & 0x10000000
is_directory_flag(flags) == Len(flags) >= 2 /\ (flags[2] \div 8192) % 2 = 1

\* a variant: every File-Name attribute sets the name
file_name_last_wins(entry, attr_data, fs) ==
    IF Len(attr_data) >= 66 /\ 66 + attr_data[65] * 2 <= Len(attr_data)
    THEN [entry EXCEPT
            !.name = <<decode_utf16le_replace(Slice(attr_data, 66, 66 + attr_data[65] * 2))>>,
            !.parent_ref = <<resolve_parent([kind |-> "ref",
                                             ref |-> unpack_big(Slice(attr_data, 0, 6) \o <<0, 0>>),
                                             name |-> <<>>], fs)>>,
            !.is_directory = is_directory_flag(unpack_big(Slice(attr_data, 56, 64)))]
    ELSE entry

\* the File-Name branch (0x30) of parse_attribute
file_name(entry, attr_data, fs) ==
    IF Len(attr_data) >= 66 /\ 66 + attr_data[65] * 2 <= Len(attr_data)
    THEN [entry EXCEPT
            !.name = IF has_name(entry) THEN @
                     ELSE <<decode_utf16le_replace(Slice(attr_data, 66, 66 + attr_data[65] * 2))>>,
            !.parent_ref = <<resolve_parent([kind |-> "ref",
                                             ref |-> unpack_big(Slice(attr_data, 0, 6) \o <<0, 0>>),
                                             name |-> <<>>], fs)>>,
            !.is_directory = is_directory_flag(unpack_big(Slice(attr_data, 56, 64)))]
    ELSE entry

\* the Standard-Information branch (0x10); created_time and created_date are
\* renderings of created
standard_information(entry, attr_data) ==
    IF Len(attr_data) >= 48
    THEN [entry EXCEPT !.created = parse_ntfs_time(unpack_big(Slice(attr_data, 24, 32))),
                       !.modified = parse_ntfs_time(unpack_big(Slice(attr_data, 32, 40))),
                       !.accessed = parse_ntfs_time(unpack_big(Slice(attr_data, 40, 48)))]
    ELSE entry

\* parse_attribute(entry, attr_type, attr_data), self.files being fs
parse_attribute(entry, attr_type, attr_data, fs) ==
    LET parsed == IF attr_type = <<16>> THEN standard_information(entry, attr_data)
                  ELSE IF attr_type = <<48>> THEN file_name(entry, attr_data, fs)
                  ELSE IF attr_type = <<128>>
                  THEN [entry EXCEPT !.data = <<decode_utf8_replace(attr_data)>>]
                  ELSE entry
        attr_name == attribute_name(attr_type)
    IN  IF attr_name \in Range(parsed.attributes) THEN parsed
        ELSE [parsed EXCEPT !.attributes = Append(@, attr_name)]

\* the attribute type 0xFFFFFFFF that ends a record
END_MARKER == <<32767, 32767, 3>>

\* the loop of parse_file_entry from attr_offset on
RECURSIVE parse_attributes(_, _, _, _)
parse_attributes(record_data, attr_offset, entry, fs) ==
    IF attr_offset + 24 > Len(record_data) THEN entry
    ELSE LET attr_type == unpack_big(Slice(record_data, attr_offset, attr_offset + 4))
             attr_length == unpack_big(Slice(record_data, attr_offset + 4, attr_offset + 8))
             content_length ==
                 unpack_big(Slice(record_data, attr_offset + 16, attr_offset + 20))
             content_offset ==
                 unpack_H(Slice(record_data, attr_offset + 20, attr_offset + 22)) + attr_offset
         IN  IF attr_type = END_MARKER \/ attr_length = <<>> THEN entry
             ELSE IF attr_offset + BigClamp(attr_length) > Len(record_data) THEN entry
             ELSE parse_attributes(
                      record_data, attr_offset + BigToInt(attr_length),
                      parse_attribute(entry, attr_type,
                                      Slice(record_data, content_offset,
                                            content_offset + BigClamp(content_length)),
                                      fs),
                      fs)

\* NTFSFileEntry() with the header fields parse_file_entry sets
new_entry(record_data, record_number) ==
    [name |-> None, used_size |-> unpack_big(Slice(record_data, 32, 36)),
     size |-> unpack_big(Slice(record_data, 40, 44)), created |-> None, modified |-> None,
     accessed |-> None, attributes |-> <<>>, is_directory |-> FALSE, parent_ref |-> None,
     record_number |-> record_number, data |-> None,
     ID |-> unpack_big(Slice(record_data, 44, 48)),
     flag |-> unpack_H(Slice(record_data, 22, 24))]

\* parse_file_entry(record_data, record_number): None, or <<the entry>>.  The
\* header fields reach to byte 48: on a shorter record struct.unpack raises,
\* which is caught.
parse_file_entry(record_data, record_number, fs) ==
    IF Len(record_data) < 48 THEN None
    ELSE LET entry == parse_attributes(record_data,
                                       unpack_H(Slice(record_data, 20, 22)),
                                       new_entry(record_data, record_number), fs)
         IN  IF has_name(entry) THEN <<entry>> ELSE None

\* parse_file_entry attribute by attribute.  The call: the entry is made and
\* the header is unpacked; on a record shorter than 48 bytes struct.unpack
\* raises, which is caught, and the call returns None
parse_file_entry_begin(record_data, record_number) ==
    /\ parse_pc = "idle"
    /\ parse_record' = record_data
    /\ parse_number' = record_number
    /\ IF Len(record_data) < 48
       THEN /\ parse_pc' = "done"
            /\ ret' = None
            /\ UNCHANGED <<parse_offset, parse_entry>>
       ELSE /\ parse_pc' = "loop"
            /\ parse_entry' = <<new_entry(record_data, record_number)>>
            /\ parse_offset' = unpack_H(Slice(record_data, 20, 22))
            /\ UNCHANGED ret
    /\ op' = [name |-> "parse_file_entry"]
    /\ UNCHANGED <<ret_src, ntfsVars, scanVars, fatVars, chainVars>>

\* the header fields the loop unpacks at attr_offset
attribute_header(record_data, attr_offset) ==
    [attr_type |-> unpack_big(Slice(record_data, attr_offset, attr_offset + 4)),
     attr_length |-> unpack_big(Slice(record_data, attr_offset + 4, attr_offset + 8)),
     content_length |-> unpack_big(Slice(record_data, attr_offset + 16, attr_offset + 20)),
     content_offset |->
         unpack_H(Slice(record_data, attr_offset + 20, attr_offset + 22)) + attr_offset]

\* a variant: an attribute that runs past the record is walked like any other
walk_stops_no_boundary(record_data, attr_offset) ==
    IF attr_offset + 24 > Len(record_data) THEN TRUE
    ELSE \E h \in {attribute_header(record_data, attr_offset)} :
            h.attr_type = END_MARKER \/ h.attr_length = <<>>

\* the loop is left: its condition fails, or one of its two breaks is taken
walk_stops(record_data, attr_offset) ==
    IF attr_offset + 24 > Len(record_data) THEN TRUE
    ELSE \E h \in {attribute_header(record_data, attr_offset)} :
            \/ h.attr_type = END_MARKER
            \/ h.attr_length = <<>>
            \/ attr_offset + BigClamp(h.attr_length) > Len(record_data)

\* one pass of the loop that reaches `attr_offset += attr_length`
parse_file_entry_iter ==
    /\ parse_pc = "loop"
    /\ ~walk_stops(parse_record, parse_offset)
    /\ LET h == attribute_header(parse_record, parse_offset)
       IN  /\ parse_entry' =
                  <<parse_attribute(parse_entry[1], h.attr_type,
                                    Slice(parse_record, h.content_offset,
                                          h.content_offset + BigClamp(h.content_length)),
                                    files)>>
           /\ parse_offset' = parse_offset + BigToInt(h.attr_length)
    /\ UNCHANGED <<parse_pc, parse_record, parse_number, callVars, ntfsVars, scanVars,
                   fatVars, chainVars>>

\* the loop is left: return entry if entry.name else None
parse_file_entry_end ==
    /\ parse_pc = "loop"
    /\ walk_stops(parse_record, parse_offset)
    /\ parse_pc' = "done"
    /\ ret' = IF has_name(parse_entry[1]) THEN parse_entry ELSE None
    /\ UNCHANGED <<op, ret_src, parse_record, parse_number, parse_offset, parse_entry,
                   ntfsVars, scanVars, fatVars, chainVars>>

(***************************************************************************)
(* NTFS.get_total_mft_entries and NTFS.scan_files, record by record.       *)
(***************************************************************************)
\* mft_size // mft_record_size for a boot sector bs: the q with
\* q * size <= mft_size < (q + 1) * size; 0 when the division raises
\* ZeroDivisionError
total_in_bound(bs, bpc) ==
    \/ bs.mft_record_size = <<>>
    \/ BigLess(BigMul(bs.mft_cluster, BigOf(bpc)),
               BigMul(BigOf(MaxRecords + 1), bs.mft_record_size))

get_total_mft_entries(bs, bpc) ==
    IF bs.mft_record_size = <<>> THEN 0
    ELSE LET mft_size == BigMul(bs.mft_cluster, BigOf(bpc))
         IN  CHOOSE q \in 0..MaxRecords :
                 /\ ~BigLess(mft_size, BigMul(BigOf(q), bs.mft_record_size))
                 /\ BigLess(mft_size, BigMul(BigOf(q + 1), bs.mft_record_size))

\* a variant: a kept entry is put ahead of the others
keep_entry_first(fs, entry) == <<entry>> \o fs

\* self.files.append(entry)
keep_entry(fs, entry) == Append(fs, entry)

\* scan_files up to its loop: the boot sector is read if the object has none
\* (a failure returns False), the table is emptied, the total is taken
scan_files_begin ==
    /\ scan_pc = "idle"
    /\ LET read == disk_read(partition_offset * SECTOR_SIZE, SECTOR_SIZE)
           loaded == IF boot_sector = None THEN boot_sector_loaded(read)
                     ELSE [boot_sector |-> boot_sector,
                           bytes_per_cluster |-> bytes_per_cluster,
                           cluster_size |-> cluster_size,
                           volume_serial |-> volume_serial]
       IN  /\ boot_sector' = loaded.boot_sector
           /\ bytes_per_cluster' = loaded.bytes_per_cluster
           /\ cluster_size' = loaded.cluster_size
           /\ volume_serial' = loaded.volume_serial
           /\ IF loaded.boot_sector = None
              THEN /\ scan_pc' = "done"
                   /\ ret' = <<FALSE>>
                   /\ UNCHANGED <<files, scan_i, total_entries>>
              ELSE /\ total_in_bound(loaded.boot_sector[1], loaded.bytes_per_cluster)
                   /\ files' = <<>>
                   /\ total_entries' = get_total_mft_entries(loaded.boot_sector[1],
                                                             loaded.bytes_per_cluster)
                   /\ scan_i' = 0
                   /\ scan_pc' = "loop"
                   /\ UNCHANGED ret
    /\ op' = [name |-> "scan_files"]
    /\ UNCHANGED <<ret_src, disk, parseVars, fatVars, chainVars>>

\* one pass of `for i in range(0, total_entries)`: both calls catch whatever
\* is raised inside them and give None
scan_files_iter ==
    /\ scan_pc = "loop"
    /\ scan_i < total_entries
    /\ LET record_data == read_mft_record(scan_i)
           entry == IF record_data = None THEN None
                    ELSE parse_file_entry(record_data[1], scan_i, files)
       IN  files' = IF entry = None THEN files ELSE keep_entry(files, entry[1])
    /\ scan_i' = scan_i + 1
    /\ UNCHANGED <<scan_pc, total_entries, disk, boot_sector, bytes_per_cluster,
                   cluster_size, volume_serial, callVars, parseVars, fatVars, chainVars>>

\* the loop is through: return True
scan_files_end ==
    /\ scan_pc = "loop"
    /\ scan_i = total_entries
    /\ scan_pc' = "done"
    /\ ret' = <<TRUE>>
    /\ UNCHANGED <<op, ret_src, scan_i, total_entries, ntfsVars, parseVars, fatVars, chainVars>>

\* no FAT32 object
NoFat ==
    /\ image = <<>>
    /\ n_bytes_sector = 0
    /\ n_sectors_cluster = 0
    /\ n_sectors_bootsector = 0
    /\ n_fat_tables = 0
    /\ volume_size = 0
    /\ n_sectors_fat_table = 0
    /\ rdet_cluster_begin = 0
    /\ fat_data = <<>>
    /\ ChainIdle

(***************************************************************************)
(* SpecBoot: read_boot_sector called again and again on an NTFS object,    *)
(* each call handed what the device gave.                                  *)
(***************************************************************************)
\* a 512-byte boot sector: jump, OEM id at 3, bytes per sector at 11, sectors
\* per cluster at 13, the MFT cluster at 48, its mirror at 56, the record-size
\* byte at 64, the serial at 72, the checksum at 80, 0x55 0xAA at 510
MkBootSector(oem, bps, spc, mft, raw, serial) ==
    LET fields == <<235, 82, 144>> \o oem \o LE(bps, 2) \o <<spc>> \o Zeros(34)
                      \o mft \o LE(2, 8) \o <<raw>> \o Zeros(7) \o serial
                      \o <<1, 2, 3, 4>>
    IN  [i \in 1..512 |-> IF i <= Len(fields) THEN fields[i]
                          ELSE IF i = 511 THEN 85
                          ELSE IF i = 512 THEN 170
                          ELSE 0]

OemMsdos == <<77, 83, 68, 79, 83, 53, 46, 48>>
OemNtfsShort == <<78, 84, 70, 83, 0, 0, 0, 0>>
SerialA == <<17, 34, 51, 68, 85, 102, 119, 136>>
SerialB == <<1, 0, 0, 0, 0, 0, 0, 0>>
MftAt4 == LE(4, 8)
MftFar == <<0, 0, 12, 0, 1, 0, 0, 0>>

Returned(data) == [raises |-> FALSE, data |-> data]
Raised == [raises |-> TRUE, data |-> <<>>]

\* every record-size byte, on an otherwise plain boot sector
RecordSizeSweep ==
    {Returned(MkBootSector(NTFS_SIGNATURE, 512, 8, MftAt4, raw, SerialA)) : raw \in 0..255}

\* boot sectors read whole: good and bad signatures, good and bad sector sizes
WholeReads ==
    {Returned(MkBootSector(oem, bps, spc, mft, raw, SerialB))
        : oem \in {NTFS_SIGNATURE}, bps \in {512, 4096}, spc \in {1, 8},
          mft \in {MftFar}, raw \in {246, 1}}
    \cup {Returned(MkBootSector(oem, bps, 8, MftAt4, 246, SerialA))
            : oem \in {NTFS_SIGNATURE, OemMsdos, OemNtfsShort},
              bps \in {0, 256, 512, 1024, 2048, 4096, 4097}}

\* reads cut short, and reads that fail
PartReads ==
    {Returned(SubSeq(MkBootSector(NTFS_SIGNATURE, 512, 8, MftAt4, 246, SerialB), 1, n))
        : n \in {0, 84, 511}}
    \cup {Raised}

InitBoot ==
    /\ NoFat
    /\ fixture = [kind |-> "none"]
    /\ NoCall
    /\ NtfsNew
    /\ ScanIdle
    /\ ParseIdle

\* the device is the environment: a call is handed what seek and read gave.
\* The sweep over the record-size byte is made on the fresh object.
NextBoot ==
    \E read \in WholeReads \cup PartReads
                    \cup (IF boot_sector = None THEN RecordSizeSweep ELSE {}) :
        read_boot_sector(read)

SpecBoot == InitBoot /\ [][NextBoot]_vars

\* 2^n, eight doublings at a time
RECURSIVE PowerOfTwo(_)
PowerOfTwo(n) == IF n < 8 THEN <<2 ^ n>> ELSE BigMulAdd(PowerOfTwo(n - 8), 256, 0)

\* n * 1024
Kibi(n) == BigMulAdd(IF n = 0 THEN <<>> ELSE <<n>>, 1024, 0)

\* the record-size byte of the sector the last call read
RecordSizeByte == op.read.data[65]

\* C8: read as a signed byte v, the byte at offset 64 gives the record size
\* 2^|v| when v < 0 and v * 1024 otherwise, for every byte; 0xF6 and 0x01 both
\* give 1024.
C8_RecordSizeDecoded ==
    (op.name = "read_boot_sector" /\ ret = <<TRUE>>) =>
        /\ boot_sector[1].mft_record_size =
              IF RecordSizeByte >= 128 THEN PowerOfTwo(256 - RecordSizeByte)
              ELSE Kibi(RecordSizeByte)
        /\ RecordSizeByte \in {246, 1} => boot_sector[1].mft_record_size = <<1024>>

\* the byte 0x80 (-128) has been read: the record size is 2^128
C8_Witness ==
    /\ op.name = "read_boot_sector"
    /\ ret = <<TRUE>>
    /\ RecordSizeByte = 128
    /\ boot_sector[1].mft_record_size = <<0, 0, 0, 0, 0, 0, 0, 0, 256>>

\* the byte 0xF6 has been read
C8_WitnessF6 ==
    /\ op.name = "read_boot_sector"
    /\ ret = <<TRUE>>
    /\ RecordSizeByte = 246
    /\ boot_sector[1].mft_record_size = <<1024>>

\* what the claim asks of the sector read: read whole, the signature at bytes
\* 3..10, 512 or 4096 bytes per sector
FullNtfsSector(read) ==
    /\ ~read.raises
    /\ Len(read.data) = 512
    /\ SubSeq(read.data, 4, 11) = <<78, 84, 70, 83, 32, 32, 32, 32>>
    /\ read.data[12] + 256 * read.data[13] \in {512, 4096}

\* C9: read_boot_sector succeeds only on a sector read whole that carries the
\* signature and 512 or 4096 bytes per sector; a call on anything else reports
\* failure and leaves boot_sector, bytes_per_cluster and volume_serial as they
\* were before the call.
C9_FailureLeavesVolumeUntouched ==
    [][op'.name = "read_boot_sector" =>
          /\ ret' = <<TRUE>> => FullNtfsSector(op'.read)
          /\ ~FullNtfsSector(op'.read) =>
                /\ ret' = <<FALSE>>
                /\ UNCHANGED <<boot_sector, bytes_per_cluster, volume_serial>>]_vars

\* a call on a sector of 1024 bytes per sector has failed on an object that
\* holds the boot sector of an earlier call
C9_Witness ==
    /\ op.name = "read_boot_sector"
    /\ ret = <<FALSE>>
    /\ ~op.read.raises
    /\ Len(op.read.data) = 512
    /\ op.read.data[12] + 256 * op.read.data[13] = 1024
    /\ SubSeq(op.read.data, 4, 11) = NTFS_SIGNATURE
    /\ boot_sector # None
    /\ bytes_per_cluster = 4096 * 8
    /\ volume_serial = <<unpack_big(SerialB)>>

\* a call has failed on the fresh object: nothing is set
C9_WitnessFresh ==
    /\ op.name = "read_boot_sector"
    /\ ret = <<FALSE>>
    /\ op.read.raises
    /\ boot_sector = None
    /\ bytes_per_cluster = 0
    /\ volume_serial = None

(***************************************************************************)
(* SpecScan: scan_files on devices that hold a boot sector and an MFT of   *)
(* good and bad records.                                                   *)
(***************************************************************************)
\* an attribute: type, length, resident, no name, content length at 16 and
\* content offset (24) at 20, then the content, padded to length bytes
MkAttribute(type, length, content) ==
    LE(type, 4) \o LE(length, 4) \o <<0, 0>> \o LE(24, 2) \o <<0, 0, 0, 0>>
        \o LE(Len(content), 4) \o LE(24, 2) \o <<0, 0>>
        \o content \o Zeros(length - 24 - Len(content))

\* the content of a File-Name attribute: the parent reference (6 bytes) and
\* its sequence number, four times, two sizes, the flags at 56, the name's
\* length in characters at 64, the namespace, the name in UTF-16
FileNameContent(parent, flags, nchars, name) ==
    LE(parent, 6) \o <<1, 0>> \o Zeros(48) \o flags \o <<nchars, 1>> \o UnitBytes(name)

\* the content of a Standard-Information attribute: four times (created
\* first, at 24 the fourth), then flags
StandardInformationContent == LE(10, 8) \o LE(20, 8) \o LE(30, 8) \o LE(40, 8) \o Zeros(16)

NoFlags == Zeros(8)
DirectoryFlag == <<0, 0, 0, 16, 0, 0, 0, 0>>
EndOfAttributes == <<255, 255, 255, 255, 0, 0, 0, 0>>

\* a record of size bytes: signature, update sequence, the attribute offset
\* (56) at 20, the flags at 22, the sizes, the record number at 44, the
\* attributes, the end marker
MkRecord(signature, flags, number, attributes, size) ==
    LET head == signature \o LE(48, 2) \o LE(3, 2) \o Zeros(8) \o LE(1, 2) \o LE(1, 2)
                    \o LE(56, 2) \o LE(flags, 2) \o LE(56 + Len(attributes) + 8, 4)
                    \o LE(size, 4) \o Zeros(8) \o LE(4, 2) \o <<0, 0>> \o LE(number, 4)
                    \o Zeros(8) \o attributes \o EndOfAttributes
    IN  [i \in 1..size |-> IF i <= Len(head) THEN head[i] ELSE 0]

\* the name the test gives record number i
RecordName(i) == <<97 + i, 46, 116>>
TextData == <<104, 105>>

\* the kinds of record a test MFT holds.  file: a name (parent 5) and data;
\* dir: times and a name, parent record 1, the directory flag; nosig: file
\* with the signature BAAD; bad: file at an offset where the device fails;
\* overrun: a File-Name attribute whose length runs past the record; unnamed:
\* data only; emptyname: a name of no characters; cut: file, the device
\* ending 44 bytes into the record
RecordKinds == {"file", "dir", "nosig", "bad", "overrun", "unnamed", "emptyname", "cut"}

RecordBytes(kind, i, size) ==
    LET named == MkAttribute(48, 96, FileNameContent(5, NoFlags, 3, RecordName(i)))
        data == MkAttribute(128, 32, TextData)
    IN  CASE kind = "file" -> MkRecord(FILE_SIGNATURE, 1, i, named \o data, size)
          [] kind = "dir" ->
                MkRecord(FILE_SIGNATURE, 3, i,
                         MkAttribute(16, 72, StandardInformationContent)
                             \o MkAttribute(48, 96, FileNameContent(1, DirectoryFlag, 3,
                                                                    RecordName(i))),
                         size)
          [] kind = "nosig" -> MkRecord(<<66, 65, 65, 68>>, 1, i, named \o data, size)
          [] kind = "bad" -> MkRecord(FILE_SIGNATURE, 1, i, named \o data, size)
          [] kind = "overrun" ->
                MkRecord(FILE_SIGNATURE, 1, i,
                         MkAttribute(128, 32, TextData)
                             \o LE(48, 4) \o LE(size, 4) \o SubSeq(named, 9, 96),
                         size)
          [] kind = "unnamed" -> MkRecord(FILE_SIGNATURE, 1, i, data, size)
          [] kind = "emptyname" ->
                MkRecord(FILE_SIGNATURE, 1, i,
                         MkAttribute(48, 96, FileNameContent(5, NoFlags, 0, <<>>)) \o data,
                         size)
          [] kind = "cut" -> SubSeq(MkRecord(FILE_SIGNATURE, 1, i, named \o data, size), 1, 44)

\* the records as the device holds them: nothing behind a cut record
RECURSIVE MftBytes(_, _, _)
MftBytes(kinds, i, size) ==
    IF i > Len(kinds) THEN <<>>
    ELSE IF kinds[i] = "cut" THEN RecordBytes("cut", i - 1, size)
    ELSE RecordBytes(kinds[i], i - 1, size) \o MftBytes(kinds, i + 1, size)

\* the record-size byte for records of 2^n bytes
RecordSizeByteFor(size) == IF size = 256 THEN 248 ELSE IF size = 512 THEN 247 ELSE 0

\* the test volumes: 512-byte sectors, one sector per cluster, the MFT at
\* cluster mft, records of size bytes; total is what the geometry gives
ScanGeometries ==
    [size : {256}, mft : 0..(MaxRecords \div 2)]
        \cup [size : {512}, mft : {m \in 1..MaxRecords : m % 2 = 1}]

ScanFixtures ==
    UNION {{[kind |-> "mft", size |-> g.size, mft |-> g.mft, oem |-> NTFS_SIGNATURE,
             records |-> records]
                : records \in [1..((g.mft * 512) \div g.size) -> RecordKinds]}
              : g \in ScanGeometries}
    \cup {[kind |-> "mft", size |-> 0, mft |-> 1, oem |-> NTFS_SIGNATURE,
           records |-> <<"file">>],
          [kind |-> "mft", size |-> 512, mft |-> 1, oem |-> OemMsdos,
           records |-> <<"file">>]}

\* the device of a test volume: the boot sector, the clusters before the
\* MFT, the records
ScanDevice(f) ==
    [data |-> MkBootSector(f.oem, 512, 1, LE(f.mft, 8), RecordSizeByteFor(f.size), SerialA)
                  \o Zeros(512 * (f.mft - 1)) \o MftBytes(f.records, 1, f.size),
     bad |-> {512 * f.mft + (i - 1) * f.size : i \in {k \in 1..Len(f.records) :
                                                        f.records[k] = "bad"}}]

InitScan ==
    /\ NoFat
    /\ NoCall
    /\ ScanIdle
    /\ ParseIdle
    /\ boot_sector = None
    /\ bytes_per_cluster = 0
    /\ cluster_size = 0
    /\ files = <<>>
    /\ volume_serial = None
    /\ \E f \in ScanFixtures :
          /\ fixture = f
          /\ disk \in {<<ScanDevice(f)>>} \cup (IF f.records = <<>> THEN {None} ELSE {})

NextScan == scan_files_begin \/ scan_files_iter \/ scan_files_end

SpecScan == InitScan /\ [][NextScan]_vars

\* what a pass of the loop and its end do to the loop's position
scan_advance ==
    /\ scan_pc = "loop"
    /\ \/ scan_i < total_entries /\ scan_i' = scan_i + 1 /\ scan_pc' = scan_pc
       \/ scan_i = total_entries /\ scan_i' = scan_i /\ scan_pc' = "done"

\* the scan is one thread of control that nothing suspends: the loop goes on
\* as long as it has a step.  Every step of the loop is a scan_advance step.
SpecScanLive == SpecScan /\ WF_<<scan_pc, scan_i>>(scan_advance)

\* the boot sector of the test volume is one that read_boot_sector takes
ScanBootValid == disk # None /\ fixture.oem = NTFS_SIGNATURE

\* the record numbers the test expects kept: the files and directories ahead
\* of any cut record, none at all when the record size is 0
RECURSIVE ExpectedKept(_, _)
ExpectedKept(kinds, i) ==
    IF i > Len(kinds) \/ kinds[i] = "cut" THEN <<>>
    ELSE (IF kinds[i] \in {"file", "dir"} THEN <<i - 1>> ELSE <<>>)
         \o ExpectedKept(kinds, i + 1)

ScanExpected == IF fixture.size = 0 THEN <<>> ELSE ExpectedKept(fixture.records, 1)

IsPrefix(a, b) == Len(a) <= Len(b) /\ SubSeq(b, 1, Len(a)) = a

\* C10: once the boot sector is valid scan_files runs to completion over the
\* records 0 .. total-1, total being (mft cluster * bytes per cluster) / record
\* size; a record that cannot be read, has no FILE signature, is malformed or
\* has no name is skipped, the entries kept before stay as they are, and at
\* the end the table holds one entry for each record that parsed, ascending.
C10_ScanRunsToCompletion ==
    /\ [](scan_pc = "loop" =>
            /\ ScanBootValid
            /\ total_entries = IF fixture.size = 0 THEN 0
                               ELSE (fixture.mft * 512) \div fixture.size
            /\ scan_i <= total_entries)
    /\ [][scan_pc = "loop" => IsPrefix(files, files')]_vars
    /\ (scan_pc = "loop") ~> (scan_pc = "done" /\ ret = <<TRUE>>)
    /\ []((scan_pc = "done" /\ ret = <<TRUE>>) =>
            /\ scan_i = total_entries
            /\ Len(files) = Len(ScanExpected)
            /\ \A k \in 1..Len(files) :
                  /\ files[k].record_number = ScanExpected[k]
                  /\ files[k].name = <<RecordName(ScanExpected[k])>>
            /\ \A j, k \in 1..Len(files) :
                  j < k => files[j].record_number < files[k].record_number)

\* a scan is through that kept records 0 and 2 and skipped the unreadable
\* record 1 between them
C10_Witness ==
    /\ scan_pc = "done"
    /\ ret = <<TRUE>>
    /\ fixture.records = <<"file", "bad", "dir">>
    /\ Len(files) = 2
    /\ files[1].record_number = 0
    /\ files[2].record_number = 2

\* a scan is through that skipped a record without signature, a record
\* without name and a record cut short
C10_WitnessSkips ==
    /\ scan_pc = "done"
    /\ ret = <<TRUE>>
    /\ fixture.records = <<"nosig", "unnamed", "cut">>
    /\ files = <<>>

\* the kept entries of the test's directories, all of which name record 1 as
\* their parent
KeptDirectories == {k \in 1..Len(files) : fixture.records[files[k].record_number + 1] = "dir"}

\* C19: parent links are resolved only after the scan is complete: while the
\* scan runs every kept entry has its parent as the number it read, and in
\* the finished table the children of one parent have the same link, whether
\* the parent's record number is below or above their own.
C19_LinksResolvedAfterScan ==
    /\ (scan_pc = "loop") => \A k \in 1..Len(files) : files[k].parent_ref[1].kind = "ref"
    /\ (scan_pc = "done" /\ ret = <<TRUE>>) =>
            \A j, k \in KeptDirectories : files[j].parent_ref = files[k].parent_ref

\* the second half of C19 alone
C19_SameLinkBelowAndAbove ==
    (scan_pc = "done" /\ ret = <<TRUE>>) =>
        \A j, k \in KeptDirectories : files[j].parent_ref = files[k].parent_ref

(***************************************************************************)
(* SpecParse: parse_file_entry on records that carry up to MaxAttributes   *)
(* attributes, good and malformed, with a file table that does or does not *)
(* hold the parent.                                                        *)
(***************************************************************************)
\* attributes of a test record
MaxAttributes == 3

\* a non-resident attribute: the non-resident flag at 8, the first and last
\* cluster numbers at 16 and 24, the offset of the data runs (64) at 32, the
\* allocated size at 40, the real size at 48, the initialized size at 56, one
\* data run
MkNonResident(type, real_size) ==
    LE(type, 4) \o LE(72, 4) \o <<1, 0>> \o LE(64, 2) \o <<0, 0, 1, 0>>
        \o Zeros(8) \o LE(0, 8) \o LE(64, 2) \o Zeros(6)
        \o LE(4096, 8) \o real_size \o real_size \o <<17, 1, 40, 0, 0, 0, 0, 0>>

NameAb == <<97, 98>>
NameCd == <<99, 100>>

\* 100 bytes of text: U+1F600, 25 times
Text100 == [i \in 1..100 |-> <<240, 159, 152, 128>>[((i - 1) % 4) + 1]]

\* 2^32 + 100, the real size of the test's non-resident stream
StreamSize == <<100, 0, 0, 0, 1, 0, 0, 0>>

\* the record number of the test record, and of the directories its names
\* give as parent
TestNumbers == [record |-> 12, parent_of_ab |-> 7, parent_of_cd |-> 5]
TestRecordNumber == TestNumbers.record
ParentOfAb == TestNumbers.parent_of_ab
ParentOfCd == TestNumbers.parent_of_cd

\* the kinds of attribute a test record is made of.
\* name: File-Name "ab" in directory 7; link: File-Name "cd" in directory 5, a
\* directory; noname: File-Name of no characters; brief: File-Name with 60
\* bytes of content; data100: resident Data of 100 bytes; stream: non-resident
\* Data; ends: an attribute of length 0; overrun: an attribute whose length
\* runs past the record; spill: resident Data of length 32 whose content, at
\* 24, is declared 16 bytes long, 8 more than the attribute holds
AttributeKinds ==
    {"name", "link", "noname", "brief", "data100", "stream", "ends", "overrun", "spill"}

AttributeBytes(kind) ==
    CASE kind = "name" -> MkAttribute(48, 96, FileNameContent(ParentOfAb, NoFlags, 2, NameAb))
      [] kind = "link" ->
            MkAttribute(48, 96, FileNameContent(ParentOfCd, DirectoryFlag, 2, NameCd))
      [] kind = "noname" -> MkAttribute(48, 96, FileNameContent(9, NoFlags, 0, <<>>))
      [] kind = "brief" ->
            MkAttribute(48, 88, SubSeq(FileNameContent(ParentOfCd, NoFlags, 2, NameCd), 1, 60))
      [] kind = "data100" -> MkAttribute(128, 128, Text100)
      [] kind = "stream" -> MkNonResident(128, StreamSize)
      [] kind = "ends" -> LE(64, 4) \o LE(0, 4) \o Zeros(24)
      [] kind = "overrun" -> LE(128, 4) \o LE(4096, 4) \o SubSeq(MkAttribute(128, 32, TextData), 9, 32)
      [] kind = "spill" ->
            SubSeq(MkAttribute(128, 32, TextData), 1, 16) \o LE(16, 4)
                \o SubSeq(MkAttribute(128, 32, TextData), 21, 32)

RECURSIVE AttributesBytes(_)
AttributesBytes(kinds) ==
    IF kinds = <<>> THEN <<>> ELSE AttributeBytes(Head(kinds)) \o AttributesBytes(Tail(kinds))

\* the entry a scan keeps for directory number i
KeptDirectory(i) == parse_file_entry(RecordBytes("dir", i, 512), i, <<>>)[1]

\* the file tables the record is parsed against
FileTables == {"empty", "parent"}
FileTable(t) ==
    CASE t = "empty" -> <<>>
      [] t = "parent" -> <<KeptDirectory(3), KeptDirectory(ParentOfAb)>>

ParseFixtures ==
    {[kind |-> "record", attributes |-> a, table |-> t, length |-> 512] :
        a \in UNION {[1..n -> AttributeKinds] : n \in 0..MaxAttributes}, t \in FileTables}
    \cup {[kind |-> "record", attributes |-> <<"name">>, table |-> "empty", length |-> n] :
              n \in {44, 160}}

\* the bytes of the test record: 512 of them, or the first 44 (the header is
\* cut), or the first 160 (no room for a header behind the first attribute)
ParseRecord(f) ==
    SubSeq(MkRecord(FILE_SIGNATURE, 1, TestRecordNumber, AttributesBytes(f.attributes), 512),
           1, f.length)

InitParse ==
    /\ NoFat
    /\ NoCall
    /\ ScanIdle
    /\ ParseIdle
    /\ disk = None
    /\ boot_sector = None
    /\ bytes_per_cluster = 0
    /\ cluster_size = 0
    /\ volume_serial = None
    /\ \E t \in FileTables : \E table \in {FileTable(t)} :
          \E f \in {g \in ParseFixtures : g.table = t} :
             /\ fixture = f
             /\ files = table

NextParse ==
    \/ parse_file_entry_begin(ParseRecord(fixture), TestRecordNumber)
    \/ parse_file_entry_iter
    \/ parse_file_entry_end

SpecParse == InitParse /\ [][NextParse]_vars

\* the size the Data attribute of a kind declares
DeclaredSize(kind) ==
    CASE kind = "data100" -> BigOf(100)
      [] kind = "stream" -> unpack_big(StreamSize)
      [] kind = "spill" -> BigOf(16)

DataKinds == {"data100", "stream", "spill"}

\* the test record is whole, every attribute of it is well-formed, and the
\* walk went through all of them
ParsedWhole ==
    /\ parse_pc = "done"
    /\ fixture.length = 512
    /\ Range(fixture.attributes) \cap {"ends", "overrun"} = {}

\* C11: the size of an entry is the size of the record's Data attribute: the
\* declared content length of a resident one (100 for a declared length of
\* 100), the 64-bit real size of a non-resident one.
C11_SizeFromDataAttribute ==
    (ParsedWhole /\ ret # None) =>
        \A k \in 1..Len(fixture.attributes) :
            (/\ fixture.attributes[k] \in DataKinds
             /\ \A j \in 1..Len(fixture.attributes) :
                    fixture.attributes[j] \in DataKinds => j = k)
                => ret[1].size = DeclaredSize(fixture.attributes[k])

\* the four bytes of attr_length at attr_offset as a number; 65536, which is
\* past the end of every record of the model, for a length of 65536 or more
attr_length_at(record_data, attr_offset) ==
    LET bytes == Slice(record_data, attr_offset + 4, attr_offset + 8)
    IN  IF bytes[3] = 0 /\ bytes[4] = 0 THEN bytes[1] + 256 * bytes[2] ELSE 65536

\* what a pass of the walk and its end do to the walk's position, read off
\* the bytes of the record: the walk ends when no header fits behind the
\* offset, at the type FF FF FF FF, at a length of 0 and at a length that
\* runs past the record; otherwise the offset goes up by the length
parse_advance ==
    /\ parse_pc = "loop"
    /\ IF \/ parse_offset + 24 > Len(parse_record)
          \/ Slice(parse_record, parse_offset, parse_offset + 4) = <<255, 255, 255, 255>>
          \/ attr_length_at(parse_record, parse_offset) = 0
          \/ parse_offset + attr_length_at(parse_record, parse_offset) > Len(parse_record)
       THEN parse_pc' = "done" /\ parse_offset' = parse_offset
       ELSE /\ parse_pc' = parse_pc
            /\ parse_offset' = parse_offset + attr_length_at(parse_record, parse_offset)

\* parse_file_entry is one thread of control that nothing suspends: the
\* walk goes on as long as it has a step.  Every step of the walk is a
\* parse_advance step.
SpecParseLive == SpecParse /\ WF_<<parse_pc, parse_offset>>(parse_advance)

\* the attributes of the test record the walk is expected to go through:
\* those ahead of the first that has length 0 or does not fit the record
RECURSIVE WalkedKinds(_, _, _)
WalkedKinds(kinds, offset, length) ==
    IF kinds = <<>> THEN <<>>
    ELSE IF Head(kinds) \in {"ends", "overrun"} THEN <<>>
    ELSE IF offset + Len(AttributeBytes(Head(kinds))) > length THEN <<>>
    ELSE <<Head(kinds)>>
         \o WalkedKinds(Tail(kinds), offset + Len(AttributeBytes(Head(kinds))), length)

Walked == WalkedKinds(fixture.attributes, 56, fixture.length)

\* a whole record that holds the walked attributes and nothing else
WalkedRecord == MkRecord(FILE_SIGNATURE, 1, TestRecordNumber, AttributesBytes(Walked), 512)

\* the last walked attribute declares content that reaches into the attribute
\* the walk stopped at: its content is not the same in WalkedRecord, where
\* the end marker stands behind it
StoppedBehindSpill ==
    /\ Walked # <<>>
    /\ Walked[Len(Walked)] = "spill"
    /\ Len(Walked) < Len(fixture.attributes)

\* C16: the attribute walk of parse_file_entry terminates for every record: it
\* stops at the type 0xFFFFFFFF, at an attribute of length 0 and at an
\* attribute that runs past the record, and otherwise moves the offset forward
\* by the attribute's length, which is positive; when it stops at a malformed
\* attribute the call returns what the attributes ahead of it gave.
C16_WalkTerminates ==
    /\ (parse_pc = "loop") ~> (parse_pc = "done")
    /\ [][parse_pc = "loop" => parse_advance]_vars
    /\ [][(parse_pc = "loop" /\ parse_pc' = "loop") => parse_offset' > parse_offset]_vars
    /\ []((parse_pc = "done" /\ fixture.length >= 48) =>
            /\ parse_offset = 56 + Len(AttributesBytes(Walked))
            /\ ~StoppedBehindSpill =>
                  \A whole \in {WalkedRecord} :
                     ret = parse_file_entry(whole, TestRecordNumber, files))

\* the walk stopped at an attribute that runs past the record, behind a
\* File-Name attribute: the entry is returned with its name
C16_Witness ==
    /\ parse_pc = "done"
    /\ fixture.attributes = <<"name", "overrun">>
    /\ parse_offset = 152
    /\ ret # None
    /\ ret[1].name = <<NameAb>>
    /\ ret[1].data = None

\* the walk stopped at an attribute of length 0 behind a Data attribute
C16_WitnessLengthZero ==
    /\ parse_pc = "done"
    /\ fixture.attributes = <<"data100", "ends", "name">>
    /\ parse_offset = 184
    /\ parse_entry[1].data = <<decode_utf8_replace(Text100)>>
    /\ ret = None

\* the name a File-Name attribute of a kind carries
NameOfKind(kind) ==
    CASE kind = "name" -> NameAb
      [] kind = "link" -> NameCd
      [] kind = "noname" -> <<>>

\* the File-Name attributes among the walked ones that carry a name, in order
NamesWalked == SelectSeq(Walked, LAMBDA k : k \in {"name", "link", "noname"})

\* those of them whose name is not empty
NamesGiven == SelectSeq(Walked, LAMBDA k : k \in {"name", "link"})

C17_WitnessEmptyFirst ==
    /\ parse_pc = "done"
    /\ fixture.attributes = <<"noname", "link", "name">>
    /\ ret # None
    /\ ret[1].name = <<NameCd>>

\* the record number of the directory a File-Name attribute of a kind names
\* as parent: the low 48 bits of its first 8 bytes
ParentOfKind(kind) ==
    CASE kind = "name" -> ParentOfAb
      [] kind = "link" -> ParentOfCd
      [] kind = "noname" -> 9

\* C18: the parent reference of an entry is the record number of the
\* containing directory, the low 48 bits of the 8-byte parent reference of the
\* File-Name attribute, whatever entries the file table holds.
C18_ParentRefIsRecordNumber ==
    (parse_pc = "done" /\ ret # None) =>
        ret[1].parent_ref = <<[kind |-> "ref",
                               ref |-> BigOf(ParentOfKind(NamesWalked[Len(NamesWalked)])),
                               name |-> <<>>]>>

\* the walk is at an attribute it is about to hand to parse_attribute
AttributeProcessed == parse_pc = "loop" /\ ~walk_stops(parse_record, parse_offset)

\* C21: the content handed to parse_attribute lies inside its attribute: for
\* every attribute processed, attr_offset <= content_offset and
\* content_offset + content_length <= attr_offset + attr_length <= the length
\* of the record.
C21_ContentInsideAttribute ==
    AttributeProcessed =>
        \E h \in {attribute_header(parse_record, parse_offset)} :
            /\ parse_offset <= h.content_offset
            /\ h.content_offset + BigClamp(h.content_length)
                  <= parse_offset + BigToInt(h.attr_length)
            /\ parse_offset + BigToInt(h.attr_length) <= Len(parse_record)

\* a Data attribute of 32 bytes that declares 16 bytes of content at 24 is
\* handed over with the first 8 bytes of the File-Name attribute behind it
C21_SpillReadsNextAttribute ==
    /\ parse_pc = "done"
    /\ fixture.attributes = <<"spill", "name">>
    /\ parse_entry[1].data
          = <<decode_utf8_replace(TextData \o Zeros(6) \o LE(48, 4) \o LE(96, 4))>>

\* the call, attribute by attribute, returns what the call as a whole returns
ParseStepwiseAgrees ==
    (parse_pc = "done") => ret = parse_file_entry(parse_record, parse_number, files)

(***************************************************************************)
(* SpecRecord: read_mft_record on the devices of SpecScan, before and      *)
(* after the boot sector is read.                                          *)
(***************************************************************************)
\* the handler: read_mft_record(record_number)
read_mft_record_call(record_number) ==
    /\ ret' = read_mft_record(record_number)
    /\ op' = [name |-> "read_mft_record", record_number |-> record_number]
    /\ UNCHANGED <<ret_src, ntfsVars, scanVars, parseVars, fatVars, chainVars>>

NextRecord ==
    \/ /\ op.name = "none"
       /\ read_boot_sector(disk_read(partition_offset * SECTOR_SIZE, SECTOR_SIZE))
    \/ /\ op.name \in {"none", "read_boot_sector"}
       /\ \E n \in 0..MaxRecords : read_mft_record_call(n)

SpecRecord == InitScan /\ [][NextRecord]_vars

\* C15: read_mft_record returns no record whenever the read is short (fewer
\* bytes than the record size) or the first 4 bytes are not FILE; what it
\* returns is a record of full size that begins with FILE.
C15_NoRecordFromShortRead ==
    (op.name = "read_mft_record" /\ ret # None) =>
        /\ boot_sector # None
        /\ BigOf(Len(ret[1])) = boot_sector[1].mft_record_size
        /\ Slice(ret[1], 0, 4) = FILE_SIGNATURE

====
